---- MODULE Spec2Model ----
(***************************************************************************)
(* A state-machine model of BootstrapSheet (src/src/js/bootstrap-sheet.js) *)
(* and of the utilities it uses (utils.js / constants.js).                 *)
(*                                                                         *)
(* Every private method of the class is an operator that takes the world   *)
(* w (a record holding the value of every variable) and returns the world  *)
(* after the method ran, so that a handler that calls other methods is the *)
(* composition of their operators.  An action applies one handler to the   *)
(* current world W and commits the result.                                 *)
(***************************************************************************)
EXTENDS Integers, Sequences, FiniteSets, TLC

\* ------------------------------------------------------------------ bounds
\* Number of BootstrapSheet objects the page constructs in one behaviour.
MaxInstances == 2

\* Number of #shakeSheet timers one instance may have pending at a time.
MaxShake == 1

\* Number of pointerdown events on drag handles in one behaviour.
MaxDrags == 1

\* ------------------------------------------------------- JavaScript values
\* A value carries its Object.prototype.toString type; numbers are kept in
\* thousandths (num = 1000 * value) so that 0.5, 0.3, 0.75 and 0.01 are exact.
Bool(b) == [type |-> "boolean", str |-> IF b THEN "true" ELSE "false", num |-> 0]
Str(s) == [type |-> "string", str |-> s, num |-> 0]
Num(milli) == [type |-> "number", str |-> "", num |-> milli]

\* JavaScript truthiness of a value (if (this.#config.backdrop) ...).
Truthy(v) ==
  CASE v.type = "boolean" -> v.str = "true"
    [] v.type = "string" -> v.str # ""
    [] v.type = "number" -> v.num # 0
    [] OTHER -> FALSE

getValueType(v) == v.type

\* --------------------------------------------------------------- constants
Default ==
  [ backdrop |-> Bool(TRUE),
    keyboard |-> Bool(TRUE),
    focus |-> Bool(TRUE),
    gestures |-> Bool(TRUE),
    swipeThreshold |-> Num(50000),
    velocityThreshold |-> Num(500),
    minCloseDistance |-> Num(50000),
    closeThresholdRatio |-> Num(300),
    animationDuration |-> Num(300000),
    projectionTime |-> Num(200000),
    dragResistanceUp |-> Num(750),
    dragResistanceDown |-> Num(10) ]

\* DefaultType after parseExpectedTypes: the allowed type names per option.
DefaultType ==
  [ backdrop |-> {"boolean", "string"},
    keyboard |-> {"boolean"},
    focus |-> {"boolean"},
    gestures |-> {"boolean"},
    swipeThreshold |-> {"number"},
    velocityThreshold |-> {"number"},
    minCloseDistance |-> {"number"},
    closeThresholdRatio |-> {"number"},
    animationDuration |-> {"number"},
    projectionTime |-> {"number"},
    dragResistanceUp |-> {"number"},
    dragResistanceDown |-> {"number"} ]

\* The keys of DefaultType in the order for...in visits them.
OptionOrder ==
  << "backdrop", "keyboard", "focus", "gestures", "swipeThreshold",
     "velocityThreshold", "minCloseDistance", "closeThresholdRatio",
     "animationDuration", "projectionTime", "dragResistanceUp",
     "dragResistanceDown" >>

\* The class names of CLASS_NAME that live on the panel element.
ClassNames == {"show", "showing", "hiding", "dragging", "sheet-static-shake"}

\* Names of the lifecycle notifications (EVENT without the namespace).
Lifecycle == {"show", "shown", "hide", "hidden"}

\* ------------------------------------------------------------ the document
\* Panel elements of the page, the other children of <body>, and the name of
\* the backdrop element owned by instance i.
Elements == {"e1", "e2"}
NullEl == "null"
OutsideNodes == {"main", "aside"}
BdName == <<"bd1", "bd2", "bd3", "bd4", "bd5", "bd6">>
Ids == 1..MaxInstances
NoInst == 0
Nodes == Elements \cup OutsideNodes \cup {BdName[i] : i \in Ids}

\* Focusable descendants of each panel (the dismiss button of createSheet, a
\* second control on e1) and whether the panel has a drag handle and dismiss
\* buttons.
PanelFocusables == [e1 |-> <<"e1.close", "e1.ok">>, e2 |-> <<"e2.close">>]
HasDragHandle == [e1 |-> TRUE, e2 |-> TRUE]
HasDismissButton == [e1 |-> TRUE, e2 |-> TRUE]

\* The options objects a page may use for its sheets: none, a static backdrop,
\* everything switched off; and an object with a wrongly typed option.
NoOptions == [k \in {} |-> Bool(FALSE)]
PageOptions ==
  { NoOptions,
    [backdrop |-> Str("static")],
    [backdrop |-> Bool(FALSE), keyboard |-> Bool(FALSE), focus |-> Bool(FALSE),
     gestures |-> Bool(FALSE)] }
BadOptions == [animationDuration |-> Str("300")]

\* { ...a, ...b }
Merge(a, b) ==
  [k \in (DOMAIN a) \cup (DOMAIN b) |-> IF k \in DOMAIN b THEN b[k] ELSE a[k]]

\* What the message of a TypeError of validateConfigTypes names.
NoMessage == [option |-> "", expected |-> {}, received |-> ""]

VARIABLES
  panels,        \* the panel elements present in the document
  options,       \* the options object this page uses for its sheets
  INSTANCES,     \* the WeakMap element -> instance
  created,       \* number of instances constructed so far
  inst,          \* the private fields of every instance
  classes,       \* classList of every panel element
  transform,     \* inline translateY of every panel element, in 1/1000 px
  aria,          \* role/aria-modal/tabindex set on the panel element
  inert,         \* the inert property of every child of <body>
  bodyStyle,     \* inline padding-right/overflow of <body>
  offsetHeight,  \* offsetHeight of every panel element, in px
  activeElement, \* document.activeElement
  drags,         \* number of pointerdown events delivered so far
  emitted,       \* the notifications dispatched by the last step, in order
  lastNote       \* per instance, its last lifecycle notification not cancelled

vars ==
  << panels, options, INSTANCES, created, inst, classes, transform, aria, inert,
     bodyStyle, offsetHeight, activeElement, drags, emitted, lastNote >>

\* The program's own state: everything but the observation variables.
progVars ==
  << panels, options, INSTANCES, created, inst, classes, transform, aria, inert,
     bodyStyle, offsetHeight, activeElement >>

\* The world as one record.  Six fields are not state: ret is the value the
\* handler returns, err the exception that leaves it, message what a TypeError
\* names, log what the handler writes to the console, defaultPrevented whether
\* a listener called preventDefault on the DOM event being dispatched, cancels
\* the notifications on which the page's listeners call preventDefault
\* although the sheet does not ask for their answer.
W ==
  [ panels |-> panels, options |-> options, INSTANCES |-> INSTANCES, created |-> created,
    inst |-> inst, classes |-> classes, transform |-> transform,
    aria |-> aria, inert |-> inert, bodyStyle |-> bodyStyle,
    offsetHeight |-> offsetHeight,
    activeElement |-> activeElement, drags |-> drags, emitted |-> emitted,
    lastNote |-> lastNote, ret |-> 0, err |-> "", log |-> "",
    defaultPrevented |-> FALSE, message |-> NoMessage, cancels |-> {} ]

\* The program's part of a world.
Prog(w) ==
  << w.panels, w.options, w.INSTANCES, w.created, w.inst, w.classes, w.transform, w.aria,
     w.inert, w.bodyStyle, w.offsetHeight, w.activeElement >>

Commit(w) ==
  /\ panels' = w.panels
  /\ options' = w.options
  /\ INSTANCES' = w.INSTANCES
  /\ created' = w.created
  /\ inst' = w.inst
  /\ classes' = w.classes
  /\ transform' = w.transform
  /\ aria' = w.aria
  /\ inert' = w.inert
  /\ bodyStyle' = w.bodyStyle
  /\ offsetHeight' = w.offsetHeight
  /\ activeElement' = w.activeElement
  /\ drags' = w.drags
  /\ emitted' = w.emitted
  /\ lastNote' = w.lastNote

\* ------------------------------------------------------ instance structure
\* The closure of one executeAfterTransition call (isExecuted, timeoutId, the
\* transitionend listener) together with the field that holds its cancel
\* function: set is FALSE while #openTimeout / #closeTimeout is null.
NullToken ==
  [set |-> FALSE, element |-> NullEl, isExecuted |-> FALSE, timeoutId |-> FALSE,
   listening |-> FALSE]

\* #animationFrame: the handle of the frame callback the instance requested
\* last, as the closure it identifies.  kind is "none", "drag"
\* (#schedulePositionUpdate) or "settle" (#animateToPosition).  The handle of
\* a callback that has run identifies nothing and cancelAnimationFrame does
\* nothing with it, so it is "none" here as null is.
NullFrame ==
  [kind |-> "none", startY |-> 0, targetY |-> 0, close |-> FALSE]

NullBackdrop ==
  [exists |-> FALSE, opacity |-> 0, smooth |-> FALSE, static |-> FALSE]

\* How many listeners of the instance are registered: keydown (Escape),
\* pointermove, pointerup and pointercancel on the document, pointerdown on
\* the drag handle, click on each dismiss control and on the backdrop.
NoListeners ==
  [escape |-> 0, dismiss |-> 0, pointerDown |-> 0, pointerMove |-> 0,
   pointerUp |-> 0, pointerCancel |-> 0, backdropClick |-> 0]

\* removeEventListener(type, handler): removes the registration of that
\* closure, if handler is one and it is registered.
Removed(count, handler) == IF handler /\ count > 0 THEN count - 1 ELSE count

\* The field initialisers of the class.
NewInstance ==
  [ element |-> NullEl,
    config |-> NoOptions,
    backdrop |-> NullBackdrop,
    state |-> [isShown |-> FALSE, isTransitioning |-> FALSE, isDragging |-> FALSE],
    animationFrame |-> NullFrame,
    frames |-> 0,
    openTimeout |-> NullToken,
    closeTimeout |-> NullToken,
    handlers |-> [escape |-> FALSE, dismiss |-> FALSE, focusTrap |-> FALSE,
                  pointerDown |-> FALSE, pointerMove |-> FALSE, pointerUp |-> FALSE],
    focus |-> [previousElement |-> "null", focusableElements |-> <<>>,
               mutationObserver |-> FALSE],
    focusTrapTarget |-> NullEl,
    focusTrapListeners |-> 0,
    listeners |-> NoListeners,
    inertedNodes |-> [n \in {} |-> FALSE],
    gesture |-> [startY |-> 0, currentY |-> 0, lastY |-> 0, velocity |-> 0,
                 startTranslateY |-> 0, sheetHeight |-> 0],
    shakeTimers |-> 0 ]

\* ---------------------------------------------------------------- helpers
El(w, i) == w.inst[i].element
Cfg(w, i) == w.inst[i].config
Disposed(w, i) == i <= w.created /\ El(w, i) = NullEl
Live(w, i) == i <= w.created /\ El(w, i) # NullEl

\* The lifecycle state named by the two flags.
LifecycleOf(st) ==
  CASE st.isShown /\ st.isTransitioning -> "Showing"
    [] st.isShown /\ ~st.isTransitioning -> "Shown"
    [] ~st.isShown /\ st.isTransitioning -> "Hiding"
    [] OTHER -> "Hidden"

StateOf(w, i) ==
  IF El(w, i) = NullEl THEN "Disposed" ELSE LifecycleOf(w.inst[i].state)

\* A handler starts with an empty list of dispatched notifications.
Begin(w) == [w EXCEPT !.emitted = <<>>]

Throw(w, err) == [w EXCEPT !.err = err]
Return(w, r) == [w EXCEPT !.ret = r]

\* document.body.children
BodyChildren(w) ==
  w.panels \cup OutsideNodes
    \cup {BdName[j] : j \in {k \in Ids : w.inst[k].backdrop.exists}}

clamp(value, min, max) ==
  LET lo == IF max < value THEN max ELSE value
  IN IF min > lo THEN min ELSE lo

\* getTranslateY: the m42 of the element's transform ('' and none give 0).
getTranslateY(w, e) == w.transform[e]

\* ---------------------------------------------------------- #triggerEvent
\* Dispatches a CustomEvent on the panel.  prevented is what the listeners did
\* (event.defaultPrevented).  The record keeps what a listener can observe at
\* that moment (openFired / closeFired: executeOnce of the token the field
\* holds has run); ratio is detail.ratio of a slide notification, in
\* thousandths.
triggerEvent(w, i, name, prevented, ratio) ==
  LET e == El(w, i)
      note == [inst |-> i, element |-> e, name |-> name,
               prevented |-> prevented \/ name \in w.cancels,
               isShown |-> w.inst[i].state.isShown,
               isTransitioning |-> w.inst[i].state.isTransitioning,
               visible |-> "show" \in w.classes[e],
               backdrop |-> w.inst[i].backdrop.exists,
               openFired |-> w.inst[i].openTimeout.isExecuted,
               closeFired |-> w.inst[i].closeTimeout.isExecuted,
               ratio |-> ratio]
  IN [w EXCEPT !.emitted = Append(@, note),
               !.lastNote[i] = IF name \in Lifecycle /\ ~prevented THEN name ELSE @]

\* ------------------------------------------------- executeAfterTransition
executeAfterTransition(element) ==
  [set |-> TRUE, element |-> element, isExecuted |-> FALSE, timeoutId |-> TRUE,
   listening |-> TRUE]

\* cleanupListeners: removes the transitionend listener, clears the timeout.
cleanupListeners(tok) == [tok EXCEPT !.listening = FALSE, !.timeoutId = FALSE]

\* The function executeAfterTransition returns.
cancelToken(tok) ==
  IF ~tok.isExecuted THEN [cleanupListeners(tok) EXCEPT !.isExecuted = TRUE] ELSE tok

\* Element.focus(): <body> and a missing element take no focus.
focusOn(w, target) ==
  IF target \in {"null", "body"} THEN w ELSE [w EXCEPT !.activeElement = target]

\* ---------------------------------------------------------------- backdrop
updateBackdropOpacity(w, i, ratio) ==
  IF ~Truthy(Cfg(w, i).backdrop) \/ ~w.inst[i].backdrop.exists
  THEN w
  ELSE [w EXCEPT !.inst[i].backdrop.opacity = clamp(ratio, 0, 1000)]

createBackdrop(w, i) ==
  LET isStatic == Cfg(w, i).backdrop.type = "string" /\ Cfg(w, i).backdrop.str = "static"
  IN [w EXCEPT !.inst[i].backdrop =
                 [exists |-> TRUE, opacity |-> 0, smooth |-> TRUE, static |-> isStatic],
               !.inst[i].listeners.backdropClick = IF isStatic THEN 0 ELSE 1,
               !.inert[BdName[i]] = FALSE]

showBackdrop(w, i) ==
  LET w1 == IF ~w.inst[i].backdrop.exists THEN createBackdrop(w, i) ELSE w
  IN updateBackdropOpacity(w1, i, 1000)

\* A faulty #removeBackdrop: it forgets the element but leaves it in the
\* document.
removeBackdrop_never(w, i) == w

removeBackdrop(w, i) ==
  IF w.inst[i].backdrop.exists
  THEN [w EXCEPT !.inst[i].backdrop = NullBackdrop,
                 !.inst[i].listeners.backdropClick = 0,
                 !.inert[BdName[i]] = FALSE]
  ELSE w

\* ------------------------------------------------------------- body scroll
\* compensate: the body overflows and the scrollbar has a width.
adjustBodyPadding(w, compensate) ==
  IF compensate THEN [w EXCEPT !.bodyStyle = "compensated"] ELSE w

resetBodyPadding(w) == [w EXCEPT !.bodyStyle = ""]

\* ------------------------------------------------------------------- inert
\* SUPPORTS_INERT is taken as true; the aria-hidden branch has the same shape.
applyInert(w, i) ==
  LET nodes == BodyChildren(w) \ {BdName[i], El(w, i)}
      old == w.inst[i].inertedNodes
  IN [w EXCEPT !.inst[i].inertedNodes =
                 [n \in (DOMAIN old) \cup nodes |->
                    IF n \in nodes THEN w.inert[n] ELSE old[n]],
               !.inert = [n \in DOMAIN w.inert |-> IF n \in nodes THEN TRUE ELSE w.inert[n]]]

\* A backdrop that was removed from the document is a detached element:
\* writing its inert property changes nothing in the document.
removeInert(w, i) ==
  LET old == w.inst[i].inertedNodes
      present == (DOMAIN old) \cap BodyChildren(w)
  IN IF DOMAIN old = {}
     THEN w
     ELSE [w EXCEPT !.inert = [n \in DOMAIN w.inert |->
                                 IF n \in present THEN old[n] ELSE w.inert[n]],
                    !.inst[i].inertedNodes = [n \in {} |-> FALSE]]

\* -------------------------------------------------------- focus management
\* The panel content of this model is static and every control is eligible.
updateFocusableElements(w, i) ==
  [w EXCEPT !.inst[i].focus.focusableElements = PanelFocusables[El(w, i)]]

\* focusTrapTarget is the element the keydown listener was added to and
\* focusTrapListeners the number of listeners of this instance on it: each
\* call adds a new closure, and only the one #handlers.focusTrap holds can be
\* removed.
attachFocusTrapHandler(w, i) ==
  [w EXCEPT !.inst[i].handlers.focusTrap = TRUE,
            !.inst[i].focusTrapTarget = El(w, i),
            !.inst[i].focusTrapListeners = @ + 1]

detachFocusTrapHandler(w, i) ==
  IF w.inst[i].handlers.focusTrap
  THEN [w EXCEPT !.inst[i].handlers.focusTrap = FALSE,
                 !.inst[i].focusTrapTarget =
                   IF w.inst[i].focusTrapListeners = 1 THEN NullEl ELSE @,
                 !.inst[i].focusTrapListeners = @ - 1]
  ELSE w

observeFocusableChanges(w, i) ==
  IF w.inst[i].focus.mutationObserver
  THEN w
  ELSE [w EXCEPT !.inst[i].focus.mutationObserver = TRUE]

disconnectFocusObserver(w, i) ==
  IF w.inst[i].focus.mutationObserver
  THEN [w EXCEPT !.inst[i].focus.mutationObserver = FALSE]
  ELSE w

startFocusManagement(w, i) ==
  observeFocusableChanges(attachFocusTrapHandler(updateFocusableElements(w, i), i), i)

stopFocusManagement(w, i) ==
  disconnectFocusObserver(detachFocusTrapHandler(w, i), i)

trapFocus(w, i) ==
  LET w1 == updateFocusableElements(w, i)
      list == w1.inst[i].focus.focusableElements
  IN IF Len(list) > 0 THEN focusOn(w1, list[1]) ELSE focusOn(w1, El(w1, i))

restoreFocus(w, i) == focusOn(w, w.inst[i].focus.previousElement)

\* ---------------------------------------------------------- event handlers
attachEscapeHandler(w, i) ==
  IF ~Truthy(Cfg(w, i).keyboard)
  THEN w
  ELSE [w EXCEPT !.inst[i].handlers.escape = TRUE,
                 !.inst[i].listeners.escape = @ + 1]

\* A faulty #detachEscapeHandler: it forgets the closure and leaves the
\* listener on the document.
detachEscapeHandler_onlyNulls(w, i) ==
  IF w.inst[i].handlers.escape THEN [w EXCEPT !.inst[i].handlers.escape = FALSE] ELSE w

detachEscapeHandler(w, i) ==
  IF w.inst[i].handlers.escape
  THEN [w EXCEPT !.inst[i].handlers.escape = FALSE,
                 !.inst[i].listeners.escape = Removed(@, TRUE)]
  ELSE w

\* The count is that of the listeners on one dismiss control.
attachDismissHandlers(w, i) ==
  [w EXCEPT !.inst[i].handlers.dismiss = TRUE,
            !.inst[i].listeners.dismiss = IF HasDismissButton[El(w, i)] THEN @ + 1 ELSE @]

detachDismissHandlers(w, i) ==
  IF ~w.inst[i].handlers.dismiss
  THEN w
  ELSE [w EXCEPT !.inst[i].handlers.dismiss = FALSE,
                 !.inst[i].listeners.dismiss =
                    IF HasDismissButton[El(w, i)] THEN Removed(@, TRUE) ELSE @]

attachGestureHandlers(w, i) ==
  IF ~HasDragHandle[El(w, i)]
  THEN w
  ELSE [w EXCEPT !.inst[i].handlers.pointerDown = TRUE,
                 !.inst[i].handlers.pointerMove = TRUE,
                 !.inst[i].handlers.pointerUp = TRUE,
                 !.inst[i].listeners.pointerDown = @ + 1,
                 !.inst[i].listeners.pointerMove = @ + 1,
                 !.inst[i].listeners.pointerUp = @ + 1,
                 !.inst[i].listeners.pointerCancel = @ + 1]

detachGestureHandlers(w, i) ==
  LET h == w.inst[i].handlers
  IN [w EXCEPT !.inst[i].handlers.pointerDown = FALSE,
               !.inst[i].handlers.pointerMove = FALSE,
               !.inst[i].handlers.pointerUp = FALSE,
               !.inst[i].listeners.pointerDown =
                  Removed(@, HasDragHandle[El(w, i)] /\ h.pointerDown),
               !.inst[i].listeners.pointerMove = Removed(@, h.pointerMove),
               !.inst[i].listeners.pointerUp = Removed(@, h.pointerUp),
               !.inst[i].listeners.pointerCancel = Removed(@, h.pointerUp)]

attachEventHandlers(w, i) ==
  LET w1 == attachDismissHandlers(attachEscapeHandler(w, i), i)
  IN IF Truthy(Cfg(w, i).gestures) THEN attachGestureHandlers(w1, i) ELSE w1

detachEventHandlers(w, i) ==
  LET w1 == detachDismissHandlers(detachEscapeHandler(w, i), i)
  IN IF Truthy(Cfg(w, i).gestures) THEN detachGestureHandlers(w1, i) ELSE w1

\* --------------------------------------------------------------- utilities
\* requestAnimationFrame(f) with the handle stored in #animationFrame;
\* frames counts the callbacks of the instance the browser holds.
requestAnimationFrame(w, i, f) ==
  [w EXCEPT !.inst[i].animationFrame = f, !.inst[i].frames = @ + 1]

\* if (this.#animationFrame) cancelAnimationFrame(this.#animationFrame)
cancelAnimationFrame(w, i) ==
  IF w.inst[i].animationFrame.kind # "none"
  THEN [w EXCEPT !.inst[i].frames = @ - 1]
  ELSE w

cancelAnimations(w, i) ==
  IF w.inst[i].animationFrame.kind # "none"
  THEN [cancelAnimationFrame(w, i) EXCEPT !.inst[i].animationFrame = NullFrame]
  ELSE w

\* A faulty #abortDrag: it cancels the frame and leaves the session active.
abortDrag_keepsDragging(w, i) == cancelAnimations(w, i)

abortDrag(w, i) ==
  IF ~w.inst[i].state.isDragging
  THEN w
  ELSE LET w1 == [w EXCEPT !.inst[i].state.isDragging = FALSE]
           w2 == IF w1.inst[i].backdrop.exists
                 THEN [w1 EXCEPT !.inst[i].backdrop.smooth = TRUE]
                 ELSE w1
       IN cancelAnimations(w2, i)

\* -------------------------------------------------------------------- show
\* offsetHeight of the panels of the page, in px.
OffsetHeight == 400

prepareShow(w, i) ==
  [w EXCEPT !.inst[i].state.isShown = TRUE,
            !.inst[i].state.isTransitioning = TRUE,
            !.inst[i].focus.previousElement = w.activeElement,
            !.inst[i].gesture.sheetHeight = w.offsetHeight[El(w, i)]]

executeShow(w, i, compensate) ==
  LET w1 == IF Truthy(Cfg(w, i).backdrop) THEN showBackdrop(w, i) ELSE w
      w2 == adjustBodyPadding(applyInert(w1, i), compensate)
      w3 == [w2 EXCEPT !.classes[El(w, i)] = @ \cup {"showing", "show"}]
      w4 == attachEventHandlers(w3, i)
      w5 == IF Truthy(Cfg(w, i).focus) THEN startFocusManagement(w4, i) ELSE w4
  IN [w5 EXCEPT !.inst[i].openTimeout = executeAfterTransition(El(w, i))]

\* A faulty #finalizeShow: it forgets to reset isTransitioning.
finalizeShow_keepsTransitioning(w, i) ==
  IF El(w, i) = NullEl
  THEN Throw(w, "TypeError")
  ELSE LET w1 == [w EXCEPT !.classes[El(w, i)] = @ \ {"showing"}]
           w2 == IF Truthy(Cfg(w, i).focus) THEN trapFocus(w1, i) ELSE w1
       IN triggerEvent(w2, i, "shown", FALSE, 0)

\* Runs as the callback of #openTimeout.  On a disposed instance the first
\* statement dereferences a null #element and throws.
finalizeShow(w, i) ==
  IF El(w, i) = NullEl
  THEN Throw(w, "TypeError")
  ELSE LET w1 == [w EXCEPT !.classes[El(w, i)] = @ \ {"showing"},
                           !.inst[i].state.isTransitioning = FALSE]
           w2 == IF Truthy(Cfg(w, i).focus) THEN trapFocus(w1, i) ELSE w1
       IN triggerEvent(w2, i, "shown", FALSE, 0)

\* A faulty show(): it goes on although a listener cancelled the notification.
show_ignoresPrevented(w, i, prevented, compensate) ==
  IF El(w, i) = NullEl
  THEN w
  ELSE IF w.inst[i].state.isShown \/ w.inst[i].state.isTransitioning
  THEN w
  ELSE executeShow(prepareShow(triggerEvent(w, i, "show", prevented, 0), i), i, compensate)

\* A faulty show(): the guard looks at isShown only, not at isTransitioning.
show_ignoresTransition(w, i, prevented, compensate) ==
  IF El(w, i) = NullEl
  THEN w
  ELSE IF w.inst[i].state.isShown
  THEN w
  ELSE LET w1 == triggerEvent(w, i, "show", prevented, 0)
       IN IF prevented THEN w1 ELSE executeShow(prepareShow(w1, i), i, compensate)

show(w, i, prevented, compensate) ==
  IF El(w, i) = NullEl
  THEN w
  ELSE IF w.inst[i].state.isShown \/ w.inst[i].state.isTransitioning
  THEN w
  ELSE LET w1 == triggerEvent(w, i, "show", prevented, 0)
       IN IF prevented THEN w1 ELSE executeShow(prepareShow(w1, i), i, compensate)

\* -------------------------------------------------------------------- hide
\* A faulty #prepareHide: it does not set isTransitioning.
prepareHide_withoutFlag(w, i) ==
  LET w1 == [w EXCEPT !.inst[i].state.isShown = FALSE]
      w2 == IF w1.inst[i].state.isDragging THEN abortDrag(w1, i) ELSE w1
      w3 == IF Truthy(Cfg(w, i).focus) THEN stopFocusManagement(w2, i) ELSE w2
  IN [w3 EXCEPT !.classes[El(w, i)] = (@ \cup {"hiding"}) \ {"dragging", "show"},
                !.transform[El(w, i)] = 0]

prepareHide(w, i) ==
  LET w1 == [w EXCEPT !.inst[i].state.isShown = FALSE,
                      !.inst[i].state.isTransitioning = TRUE]
      w2 == IF w1.inst[i].state.isDragging THEN abortDrag(w1, i) ELSE w1
      w3 == IF Truthy(Cfg(w, i).focus) THEN stopFocusManagement(w2, i) ELSE w2
  IN [w3 EXCEPT !.classes[El(w, i)] = (@ \cup {"hiding"}) \ {"dragging", "show"},
                !.transform[El(w, i)] = 0]

executeHide(w, i) ==
  LET w1 == removeInert(cancelAnimations(detachEventHandlers(w, i), i), i)
      w2 == updateBackdropOpacity(w1, i, 0)
  IN [w2 EXCEPT !.inst[i].closeTimeout = executeAfterTransition(El(w, i))]

\* A faulty #finalizeHide: it lets a listener cancel the hidden notification
\* and then keeps the sheet where it was.
finalizeHide_cancelable(w, i) ==
  IF El(w, i) = NullEl
  THEN Throw(w, "TypeError")
  ELSE IF "hidden" \in w.cancels
  THEN triggerEvent(w, i, "hidden", FALSE, 0)
  ELSE LET w1 == [w EXCEPT !.classes[El(w, i)] = @ \ {"hiding"},
                           !.inst[i].state.isTransitioning = FALSE]
           w2 == restoreFocus(resetBodyPadding(removeBackdrop(w1, i)), i)
       IN triggerEvent(w2, i, "hidden", FALSE, 0)

finalizeHide(w, i) ==
  IF El(w, i) = NullEl
  THEN Throw(w, "TypeError")
  ELSE LET w1 == [w EXCEPT !.classes[El(w, i)] = @ \ {"hiding"},
                           !.inst[i].state.isTransitioning = FALSE]
           w2 == restoreFocus(resetBodyPadding(removeBackdrop(w1, i)), i)
       IN triggerEvent(w2, i, "hidden", FALSE, 0)

\* A faulty hide(): it goes on although a listener cancelled the notification.
hide_ignoresPrevented(w, i, prevented) ==
  IF El(w, i) = NullEl
  THEN w
  ELSE IF ~w.inst[i].state.isShown \/ w.inst[i].state.isTransitioning
  THEN w
  ELSE executeHide(prepareHide(triggerEvent(w, i, "hide", prevented, 0), i), i)

hide(w, i, prevented) ==
  IF El(w, i) = NullEl
  THEN w
  ELSE IF ~w.inst[i].state.isShown \/ w.inst[i].state.isTransitioning
  THEN w
  ELSE LET w1 == triggerEvent(w, i, "hide", prevented, 0)
       IN IF prevented THEN w1 ELSE executeHide(prepareHide(w1, i), i)

\* A faulty toggle(): it tests the wrong flag, so it never calls hide() on a
\* sheet that is Shown.
toggle_testsTransitioning(w, i, prevented, compensate) ==
  IF w.inst[i].state.isTransitioning
  THEN hide(w, i, prevented)
  ELSE show(w, i, prevented, compensate)

toggle(w, i, prevented, compensate) ==
  IF w.inst[i].state.isShown THEN hide(w, i, prevented) ELSE show(w, i, prevented, compensate)

\* ----------------------------------------------------------------- dispose
\* A faulty #cleanup step: it nulls the timeout field without calling the
\* cancel function it holds.
cancelTimeout_onlyNulls(tok) ==
  IF tok.set THEN [tok EXCEPT !.set = FALSE] ELSE tok

\* Calls the cancel function a timeout field holds and nulls the field.
cancelTimeout(tok) ==
  IF tok.set THEN [cancelToken(tok) EXCEPT !.set = FALSE] ELSE tok

cleanup(w, i) ==
  LET w1 == [w EXCEPT !.inst[i].state =
                        [isShown |-> FALSE, isTransitioning |-> FALSE, isDragging |-> FALSE],
                      !.inst[i].openTimeout = cancelTimeout(@),
                      !.inst[i].closeTimeout = cancelTimeout(@)]
      w2 == removeBackdrop(resetBodyPadding(w1), i)
      w3 == cancelAnimations(detachEventHandlers(w2, i), i)
  IN removeInert(disconnectFocusObserver(w3, i), i)

\* A faulty dispose(): it forgets INSTANCES.delete.
dispose_keepsRegistry(w, i) ==
  IF El(w, i) = NullEl
  THEN w
  ELSE [cleanup(w, i) EXCEPT !.inst[i].element = NullEl,
                             !.inst[i].config = NoOptions]

dispose(w, i) ==
  IF El(w, i) = NullEl
  THEN w
  ELSE LET w1 == cleanup(w, i)
       IN [w1 EXCEPT !.INSTANCES[El(w, i)] = NoInst,
                     !.inst[i].element = NullEl,
                     !.inst[i].config = NoOptions]

\* ------------------------------------------------------------- constructor
\* validateConfigTypes: the first option whose value has a type that is not
\* allowed raises a TypeError; an option that is absent is skipped.
InvalidOptions(config) ==
  {k \in (DOMAIN DefaultType) \cap (DOMAIN config) :
     getValueType(config[k]) \notin DefaultType[k]}

\* A faulty validateConfigTypes: it accepts every value.
validateConfigTypes_acceptsAll(config) == TRUE

validateConfigTypes(config) == InvalidOptions(config) = {}

\* The TypeError validateConfigTypes throws: it names the first option of
\* DefaultType that has a wrong type, the allowed types and the actual type.
TypeErrorOf(config) ==
  LET at == CHOOSE n \in 1..Len(OptionOrder) :
              /\ OptionOrder[n] \in InvalidOptions(config)
              /\ \A m \in 1..(n - 1) : OptionOrder[m] \notin InvalidOptions(config)
      k == OptionOrder[at]
  IN [option |-> k, expected |-> DefaultType[k],
      received |-> getValueType(config[k])]

ThrowTypeError(w, config) ==
  [Throw(w, "TypeError") EXCEPT !.message = TypeErrorOf(config)]

setupAccessibility(w, e) == [w EXCEPT !.aria[e] = TRUE]

\* A faulty constructor: it does not look for an instance the element has.
construct_noSingleton(w, e, config) ==
  IF e = NullEl
  THEN Throw(w, "Error")
  ELSE LET id == w.created + 1
           merged == Merge(Merge(Default, NoOptions), config)
       IN IF ~validateConfigTypes(merged)
          THEN ThrowTypeError(w, merged)
          ELSE LET w1 == [w EXCEPT !.created = id,
                                   !.inst[id] = [NewInstance EXCEPT !.element = e,
                                                                    !.config = merged]]
                   w2 == setupAccessibility(w1, e)
               IN Return([w2 EXCEPT !.INSTANCES[e] = id], id)

\* new BootstrapSheet(element, config).  The panels of this model carry no
\* data-bs-* attributes, so extractDataAttributes gives {}.  The result of the
\* expression is ret; a constructor that throws leaves no object behind.
construct(w, e, config) ==
  IF e = NullEl
  THEN Throw(w, "Error")
  ELSE IF w.INSTANCES[e] # NoInst
  THEN Return(w, w.INSTANCES[e])
  ELSE LET id == w.created + 1
           merged == Merge(Merge(Default, NoOptions), config)
       IN IF ~validateConfigTypes(merged)
          THEN ThrowTypeError(w, merged)
          ELSE LET w1 == [w EXCEPT !.created = id,
                                   !.inst[id] = [NewInstance EXCEPT !.element = e,
                                                                    !.config = merged]]
                   w2 == setupAccessibility(w1, e)
               IN Return([w2 EXCEPT !.INSTANCES[e] = id], id)

getInstance(w, e) == IF e = NullEl THEN NoInst ELSE w.INSTANCES[e]

\* A faulty getOrCreateInstance: it gives the options to the instance the
\* element has.
getOrCreateInstance_reconfigures(w, e, config) ==
  IF getInstance(w, e) # NoInst
  THEN Return([w EXCEPT !.inst[getInstance(w, e)].config = Merge(Default, config)],
              getInstance(w, e))
  ELSE construct(w, e, config)

getOrCreateInstance(w, e, config) ==
  IF getInstance(w, e) # NoInst
  THEN Return(w, getInstance(w, e))
  ELSE construct(w, e, config)

\* A faulty executeOnce: it runs the callback without looking at isExecuted,
\* so the transitionend listener and the fallback timer may both run it.
executeOnce_twice(w, i, which) ==
  LET tok == w.inst[i][which]
      w1 == [w EXCEPT !.inst[i][which] = [tok EXCEPT !.timeoutId = FALSE]]
      w2 == IF which = "openTimeout" THEN finalizeShow(w1, i) ELSE finalizeHide(w1, i)
  IN IF w2.err # "" THEN [w1 EXCEPT !.log = "Error in transition callback"] ELSE w2

\* ------------------------------------------------------ transition signals
\* executeOnce of the token in field which ("openTimeout" / "closeTimeout") of
\* instance i; an exception of the callback is caught and logged.
executeOnce(w, i, which) ==
  LET tok == w.inst[i][which]
  IN IF tok.isExecuted
     THEN w
     ELSE LET w1 == [w EXCEPT !.inst[i][which] =
                                [cleanupListeners(tok) EXCEPT !.isExecuted = TRUE]]
              w2 == IF which = "openTimeout" THEN finalizeShow(w1, i) ELSE finalizeHide(w1, i)
          IN IF w2.err # "" THEN [w1 EXCEPT !.log = "Error in transition callback"] ELSE w2

\* A faulty handleTransitionEnd: it does not look at the target of the event,
\* so a transition that ends on a descendant of the element runs the callback.
handleTransitionEnd_anyTarget(w, i, which, onSelf) ==
  executeOnce(w, i, which)

\* handleTransitionEnd of that token for an event on its element; onSelf is
\* event.target === element.
handleTransitionEnd(w, i, which, onSelf) ==
  IF onSelf THEN executeOnce(w, i, which) ELSE w

\* The transitionend listeners registered on element e, in the order of the
\* sequence slots.
Slots == [k \in 1..(2 * MaxInstances) |->
            [inst |-> (k + 1) \div 2,
             which |-> IF k % 2 = 1 THEN "openTimeout" ELSE "closeTimeout"]]

Listening(w, e, slot) ==
  /\ w.inst[slot.inst][slot.which].listening
  /\ w.inst[slot.inst][slot.which].element = e

RECURSIVE dispatchTransitionEnd(_, _, _, _)
dispatchTransitionEnd(w, todo, e, onSelf) ==
  IF todo = <<>>
  THEN w
  ELSE LET slot == Head(todo)
           w1 == IF Listening(w, e, slot)
                 THEN handleTransitionEnd(w, slot.inst, slot.which, onSelf)
                 ELSE w
       IN dispatchTransitionEnd(w1, Tail(todo), e, onSelf)

\* ------------------------------------------------------------ Tab key
\* A faulty #handleTabKey: it wraps from the last target to the first without
\* looking at the Shift key.
handleTabKey_ignoresShift(w, i, shiftKey) ==
  LET list == w.inst[i].focus.focusableElements
  IN IF Len(list) = 0
     THEN w
     ELSE LET first == list[1]
              last == list[Len(list)]
              current == w.activeElement
          IN IF shiftKey /\ current = first
             THEN [focusOn(w, last) EXCEPT !.defaultPrevented = TRUE]
             ELSE IF current = last
             THEN [focusOn(w, first) EXCEPT !.defaultPrevented = TRUE]
             ELSE w

\* #handleTabKey for a keydown with key === 'Tab'.  It reads #focus and
\* document.activeElement only, never #element.
handleTabKey(w, i, shiftKey) ==
  LET list == w.inst[i].focus.focusableElements
  IN IF Len(list) = 0
     THEN w
     ELSE LET first == list[1]
              last == list[Len(list)]
              current == w.activeElement
          IN IF shiftKey /\ current = first
             THEN [focusOn(w, last) EXCEPT !.defaultPrevented = TRUE]
             ELSE IF ~shiftKey /\ current = last
             THEN [focusOn(w, first) EXCEPT !.defaultPrevented = TRUE]
             ELSE w

\* The n keydown listeners instance i has on its panel run #handleTabKey.
RECURSIVE runFocusTrap(_, _, _, _)
runFocusTrap(w, i, n, shiftKey) ==
  IF n = 0 THEN w ELSE runFocusTrap(handleTabKey(w, i, shiftKey), i, n - 1, shiftKey)

\* A keydown Tab that bubbles to panel e runs the focusTrap listeners of every
\* instance that added one to e and did not remove it.
RECURSIVE dispatchTab(_, _, _, _)
dispatchTab(w, todo, e, shiftKey) ==
  IF todo = <<>>
  THEN w
  ELSE LET i == Head(todo)
           w1 == IF w.inst[i].focusTrapTarget = e
                 THEN runFocusTrap(w, i, w.inst[i].focusTrapListeners, shiftKey)
                 ELSE w
       IN dispatchTab(w1, Tail(todo), e, shiftKey)

\* What the browser does with a Tab press nobody cancelled, with focus in
\* panel e: focus goes to the next (Shift: previous) control of the panel,
\* and leaves the panel when there is none.
defaultTab(w, e, shiftKey) ==
  LET list == PanelFocusables[e]
      at == {k \in 1..Len(list) : list[k] = w.activeElement}
      k == IF at = {} THEN 0 ELSE CHOOSE j \in at : TRUE
      to == IF shiftKey THEN k - 1 ELSE k + 1
  IN IF at = {} /\ shiftKey
     THEN [w EXCEPT !.activeElement = "body"]
     ELSE IF to \in 1..Len(list)
     THEN [w EXCEPT !.activeElement = list[to]]
     ELSE [w EXCEPT !.activeElement = "body"]

\* --------------------------------------------------------- keyboard, shake
\* #shakeSheet: the timer it sets is never cleared.
shakeSheet(w, i) ==
  [w EXCEPT !.classes[El(w, i)] = @ \cup {"sheet-static-shake"},
            !.inst[i].shakeTimers = @ + 1]

\* The callback of the #shakeSheet timer.
shakeTimeout(w, i) ==
  LET w1 == [w EXCEPT !.inst[i].shakeTimers = @ - 1]
  IN IF El(w, i) = NullEl
     THEN Throw(w1, "TypeError")
     ELSE [w1 EXCEPT !.classes[El(w, i)] = @ \ {"sheet-static-shake"}]

\* A faulty Escape listener: it hides whatever the backdrop option is.
escapeHandler_alwaysHides(w, i, prevented) == hide(w, i, prevented)

\* A click on the backdrop of instance i: #createBackdrop gives the element
\* a click listener unless the backdrop is static.
backdropClick(w, i, prevented) ==
  IF w.inst[i].backdrop.exists /\ ~w.inst[i].backdrop.static
  THEN hide(w, i, prevented)
  ELSE w

\* #handlers.escape for a keydown with key === 'Escape'.
escapeHandler(w, i, prevented) ==
  IF Cfg(w, i).backdrop.type = "string" /\ Cfg(w, i).backdrop.str = "static"
  THEN shakeSheet(w, i)
  ELSE hide(w, i, prevented)

\* One keydown on the document runs the escape handler of every instance
\* that has one attached; cancelling is the set of instances whose listeners
\* cancel the hide notification.
RECURSIVE dispatchEscape(_, _, _)
dispatchEscape(w, todo, cancelling) ==
  IF todo = <<>>
  THEN w
  ELSE LET i == Head(todo)
           w1 == IF w.inst[i].handlers.escape
                 THEN escapeHandler(w, i, i \in cancelling)
                 ELSE w
       IN dispatchEscape(w1, Tail(todo), cancelling)

IdSeq == [k \in 1..MaxInstances |-> k]

\* ---------------------------------------------------------------- gestures
\* Positions of the panel (transform, startTranslateY, frame targets) are in
\* 1/100 px, pointer coordinates in px, velocity in px/s (1000 * px/ms),
\* ratios and configuration numbers in thousandths.
Abs(x) == IF x < 0 THEN -x ELSE x

\* Division that rounds toward zero.
Quot(a, b) == IF a < 0 THEN -((-a) \div b) ELSE a \div b

onPointerDown(w, i, clientY) ==
  LET w1 == [w EXCEPT !.inst[i].state.isDragging = TRUE,
                      !.inst[i].gesture.startY = clientY,
                      !.inst[i].gesture.currentY = clientY,
                      !.inst[i].gesture.lastY = clientY,
                      !.inst[i].gesture.velocity = 0,
                      !.inst[i].gesture.startTranslateY = getTranslateY(w, El(w, i))]
      w2 == IF w1.inst[i].backdrop.exists
            THEN [w1 EXCEPT !.inst[i].backdrop.smooth = FALSE]
            ELSE w1
  IN [w2 EXCEPT !.classes[El(w, i)] = @ \cup {"dragging"}]

\* A faulty #schedulePositionUpdate: it requests a frame for every move and
\* cancels none.
schedulePositionUpdate_everyMove(w, i) ==
  requestAnimationFrame(w, i, [NullFrame EXCEPT !.kind = "drag"])

\* #schedulePositionUpdate: the frame that was pending is cancelled.
schedulePositionUpdate(w, i) ==
  requestAnimationFrame(cancelAnimationFrame(w, i), i, [NullFrame EXCEPT !.kind = "drag"])

\* deltaTime is performance.now() - lastTime, in ms.
onPointerMove(w, i, clientY, deltaTime) ==
  IF ~w.inst[i].state.isDragging \/ ~w.inst[i].state.isShown
  THEN w
  ELSE LET g == w.inst[i].gesture
           v == IF deltaTime > 0
                THEN Quot((clientY - g.lastY) * 1000, deltaTime)
                ELSE g.velocity
           w1 == [w EXCEPT !.inst[i].gesture.currentY = clientY,
                           !.inst[i].gesture.velocity = v,
                           !.inst[i].gesture.lastY = clientY]
       IN schedulePositionUpdate(w1, i)

\* A faulty #calculateResistantPosition: the resistance term is subtracted.
calculateResistantPosition_subtracts(w, i, deltaY) ==
  LET g == w.inst[i].gesture
      scale == g.sheetHeight * 25
      resistance == IF deltaY < 0
                    THEN Cfg(w, i).dragResistanceUp.num
                    ELSE Cfg(w, i).dragResistanceDown.num
      \* a zero denominator needs sheetHeight = 0: a panel without height
      denominator == scale - Quot(resistance * Abs(deltaY), 10)
  IN IF deltaY = 0 \/ denominator = 0
     THEN g.startTranslateY
     ELSE g.startTranslateY + Quot(deltaY * scale * 100, denominator)

\* #calculateResistantPosition, result in 1/100 px.
calculateResistantPosition(w, i, deltaY) ==
  LET g == w.inst[i].gesture
      scale == g.sheetHeight * 25
      resistance == IF deltaY < 0
                    THEN Cfg(w, i).dragResistanceUp.num
                    ELSE Cfg(w, i).dragResistanceDown.num
      \* a zero denominator needs sheetHeight = 0: a panel without height
      denominator == scale + Quot(resistance * Abs(deltaY), 10)
  IN IF deltaY = 0 \/ denominator = 0
     THEN g.startTranslateY
     ELSE g.startTranslateY + Quot(deltaY * scale * 100, denominator)

\* 1 - (sheetHeight ? y / sheetHeight : 0) for a position y in 1/100 px.
RatioAt(w, i, y) ==
  LET h == w.inst[i].gesture.sheetHeight
  IN 1000 - (IF h # 0 THEN Quot(y * 10, h) ELSE 0)

updateDragPosition(w, i, deltaY) ==
  LET adjustedY == calculateResistantPosition(w, i, deltaY)
      w1 == [w EXCEPT !.transform[El(w, i)] = adjustedY]
      ratio == RatioAt(w, i, adjustedY)
      w2 == updateBackdropOpacity(w1, i, clamp(ratio, 0, 1000))
  IN triggerEvent(w2, i, "slide", FALSE, ratio)

\* #animateToPosition: requests the first frame of the settle animation;
\* close says that onComplete is () => this.hide().
animateToPosition(w, i, targetY, close) ==
  requestAnimationFrame(cancelAnimationFrame(w, i), i,
                        [kind |-> "settle", startY |-> getTranslateY(w, El(w, i)),
                         targetY |-> targetY, close |-> close])

\* A faulty #handleDragEnd: it has no rule for a net upward motion.
handleDragEnd_withoutUpwardRule(w, i) ==
  LET g == w.inst[i].gesture
      c == Cfg(w, i)
      deltaY == g.currentY - g.startY
      velocity == g.velocity
      \* in 1/1000000 px
      projectedDelta == deltaY * 1000000 + velocity * c.projectionTime.num
      byHeight == g.sheetHeight * c.closeThresholdRatio.num
      threshold == IF c.swipeThreshold.num > byHeight THEN c.swipeThreshold.num ELSE byHeight
      shouldClose ==
        \/ projectedDelta > threshold * 1000
        \/ /\ Abs(velocity) > c.velocityThreshold.num
           /\ deltaY * 1000 > c.minCloseDistance.num
  IN IF shouldClose
     THEN animateToPosition(w, i, g.sheetHeight * 100, TRUE)
     ELSE animateToPosition(w, i, 0, FALSE)

\* A faulty #handleDragEnd: it closes only when both conditions hold.
handleDragEnd_bothNeeded(w, i) ==
  LET g == w.inst[i].gesture
      c == Cfg(w, i)
      deltaY == g.currentY - g.startY
      velocity == g.velocity
      \* in 1/1000000 px
      projectedDelta == deltaY * 1000000 + velocity * c.projectionTime.num
      byHeight == g.sheetHeight * c.closeThresholdRatio.num
      threshold == IF c.swipeThreshold.num > byHeight THEN c.swipeThreshold.num ELSE byHeight
      shouldClose ==
        /\ projectedDelta > threshold * 1000
        /\ /\ Abs(velocity) > c.velocityThreshold.num
           /\ deltaY * 1000 > c.minCloseDistance.num
  IN IF deltaY < 0
     THEN animateToPosition(w, i, 0, FALSE)
     ELSE IF shouldClose
     THEN animateToPosition(w, i, g.sheetHeight * 100, TRUE)
     ELSE animateToPosition(w, i, 0, FALSE)

handleDragEnd(w, i) ==
  LET g == w.inst[i].gesture
      c == Cfg(w, i)
      deltaY == g.currentY - g.startY
      velocity == g.velocity
      \* in 1/1000000 px
      projectedDelta == deltaY * 1000000 + velocity * c.projectionTime.num
      byHeight == g.sheetHeight * c.closeThresholdRatio.num
      threshold == IF c.swipeThreshold.num > byHeight THEN c.swipeThreshold.num ELSE byHeight
      shouldClose ==
        \/ projectedDelta > threshold * 1000
        \/ /\ Abs(velocity) > c.velocityThreshold.num
           /\ deltaY * 1000 > c.minCloseDistance.num
  IN IF deltaY < 0
     THEN animateToPosition(w, i, 0, FALSE)
     ELSE IF shouldClose
     THEN animateToPosition(w, i, g.sheetHeight * 100, TRUE)
     ELSE animateToPosition(w, i, 0, FALSE)

\* A faulty #onPointerUp: it does not test isDragging.
onPointerUp_withoutSession(w, i) ==
  LET w1 == [w EXCEPT !.inst[i].state.isDragging = FALSE,
                      !.classes[El(w, i)] = @ \ {"dragging"}]
      w2 == IF w1.inst[i].backdrop.exists
            THEN [w1 EXCEPT !.inst[i].backdrop.smooth = TRUE]
            ELSE w1
  IN handleDragEnd(w2, i)

onPointerUp(w, i) ==
  IF ~w.inst[i].state.isDragging
  THEN w
  ELSE LET w1 == [w EXCEPT !.inst[i].state.isDragging = FALSE,
                           !.classes[El(w, i)] = @ \ {"dragging"}]
           w2 == IF w1.inst[i].backdrop.exists
                 THEN [w1 EXCEPT !.inst[i].backdrop.smooth = TRUE]
                 ELSE w1
       IN handleDragEnd(w2, i)

\* Math.min(elapsed / duration, 1) in thousandths, elapsed ms after
\* #animateToPosition was called, for elapsed > 0: a duration of 0 gives
\* Math.min(Infinity, 1), a negative duration a negative quotient.
progressAt(w, i, elapsed) ==
  LET duration == Cfg(w, i).animationDuration.num
  IN IF duration = 0
     THEN 1000
     ELSE IF Quot(elapsed * 1000000, duration) < 1000
     THEN Quot(elapsed * 1000000, duration)
     ELSE 1000

\* The frame callback `animate` of #animateToPosition; progress is
\* Math.min(elapsed / duration, 1) in thousandths.
animate(w, i, progress, prevented) ==
  LET f == w.inst[i].animationFrame
      distance == f.targetY - f.startY
      rest == 1000 - progress
      \* 1 - Math.pow(1 - progress, 3), the cube taken in two steps
      eased == 1000 - Quot(Quot(rest * rest, 1000) * rest, 1000)
      currentY == f.startY + Quot(distance * eased, 1000)
      w1 == [w EXCEPT !.transform[El(w, i)] = currentY]
      w2 == updateBackdropOpacity(w1, i, RatioAt(w, i, currentY))
  IN IF progress < 1000
     THEN requestAnimationFrame(w2, i, f)
     ELSE LET w3 == [w2 EXCEPT !.inst[i].animationFrame = NullFrame]
          IN IF f.close THEN hide(w3, i, prevented) ELSE w3

\* The callback requestAnimationFrame runs for instance i.  With #element and
\* #config null both callbacks throw at their first property access.
frameCallback(w, i, progress, prevented) ==
  LET w0 == [w EXCEPT !.inst[i].frames = @ - 1]
  IN IF El(w, i) = NullEl
     THEN Throw([w0 EXCEPT !.inst[i].animationFrame = NullFrame], "TypeError")
     ELSE IF w.inst[i].animationFrame.kind = "drag"
     THEN LET g == w.inst[i].gesture
              w1 == [w0 EXCEPT !.inst[i].animationFrame = NullFrame]
          IN updateDragPosition(w1, i, g.currentY - g.startY)
     ELSE animate(w0, i, progress, prevented)

\* One pointermove / pointerup on the document runs the handler of every
\* instance that has it attached.
RECURSIVE dispatchPointerMove(_, _, _, _)
dispatchPointerMove(w, todo, clientY, deltaTime) ==
  IF todo = <<>>
  THEN w
  ELSE LET i == Head(todo)
           w1 == IF w.inst[i].handlers.pointerMove
                 THEN onPointerMove(w, i, clientY, deltaTime)
                 ELSE w
       IN dispatchPointerMove(w1, Tail(todo), clientY, deltaTime)

RECURSIVE dispatchPointerUp(_, _)
dispatchPointerUp(w, todo) ==
  IF todo = <<>>
  THEN w
  ELSE LET i == Head(todo)
           w1 == IF w.inst[i].handlers.pointerUp THEN onPointerUp(w, i) ELSE w
       IN dispatchPointerUp(w1, Tail(todo))

\* -------------------------------------------------------------------- Init
InitOf(present, pageOptions, heights, styles) ==
  /\ panels = present
  /\ options \in pageOptions
  /\ INSTANCES = [e \in Elements |-> NoInst]
  /\ created = 0
  /\ inst = [i \in Ids |-> NewInstance]
  /\ classes = [e \in Elements |-> {}]
  /\ transform = [e \in Elements |-> 0]
  /\ aria = [e \in Elements |-> FALSE]
  /\ inert = [n \in Nodes |-> n = "aside"]
  /\ bodyStyle \in styles
  /\ offsetHeight \in {[e \in Elements |-> h] : h \in heights}
  /\ activeElement = "trigger"
  /\ drags = 0
  /\ emitted = <<>>
  /\ lastNote = [i \in Ids |-> "none"]

InitWith(present) == InitOf(present, PageOptions, {OffsetHeight}, {""})

Init == InitWith({"e1"})

\* ----------------------------------------------------------------- inputs
\* clientY of pointerdown and of pointermove / pointerup events, in px, and
\* the time between two pointer events, in ms.
StartYs == {100}
MoveYs == {0, 300}
DeltaTimes == {100}

\* Math.min(elapsed / duration, 1) at a frame of the settle animation.
Progresses == {1000}

\* A call of show() / hide() on instance i gets as far as dispatching its
\* notification; only then is there a listener's answer (prevented), and only
\* an accepted show() measures the scrollbar (compensate).  The actions fix
\* the inputs a call does not read: prevented and compensate to FALSE, the
\* options of a construction that finds no element or an instance to the
\* page's options.
showAsks(w, i) == Live(w, i) /\ StateOf(w, i) = "Hidden"
hideAsks(w, i) == Live(w, i) /\ StateOf(w, i) = "Shown"
toggleAsks(w, i) == showAsks(w, i) \/ hideAsks(w, i)

\* ----------------------------------------------------------------- actions
\* new BootstrapSheet(element, config)
ConstructWith(configs) ==
  \E e \in panels \cup {NullEl}, config \in configs :
    /\ e # NullEl /\ INSTANCES[e] = NoInst => created < MaxInstances
    /\ config # options => e # NullEl /\ INSTANCES[e] = NoInst
    /\ Commit(construct(Begin(W), e, config))

Construct == ConstructWith({options, BadOptions})

\* BootstrapSheet.getInstance(element)
GetInstance ==
  \E e \in panels \cup {NullEl} :
    Commit(LET w == Begin(W)
                    IN Return(w, getInstance(w, e)))

\* BootstrapSheet.getOrCreateInstance(element, config)
GetOrCreateInstance ==
  \E e \in panels \cup {NullEl}, config \in {options, BadOptions} :
    /\ e # NullEl /\ INSTANCES[e] = NoInst => created < MaxInstances
    /\ config = BadOptions => e # NullEl /\ INSTANCES[e] = NoInst
    /\ Commit(getOrCreateInstance(Begin(W),
                                           e, config))

\* instance.show(), on any instance the page holds a reference to
Show ==
  \E i \in 1..created, prevented \in BOOLEAN, compensate \in BOOLEAN :
    /\ prevented => showAsks(W, i)
    /\ compensate => showAsks(W, i) /\ ~prevented
    /\ Commit(show(Begin(W), i, prevented, compensate))

\* instance.hide()
Hide ==
  \E i \in 1..created, prevented \in BOOLEAN :
    /\ prevented => hideAsks(W, i)
    /\ Commit(hide(Begin(W), i, prevented))

\* instance.toggle()
Toggle ==
  \E i \in 1..created, prevented \in BOOLEAN, compensate \in BOOLEAN :
    /\ prevented => toggleAsks(W, i)
    /\ compensate => showAsks(W, i) /\ ~prevented
    /\ Commit(toggle(Begin(W), i, prevented, compensate))

\* instance.dispose()
Dispose ==
  \E i \in 1..created :
    Commit(dispose(Begin(W), i))

\* A transitionend event reaches panel e, with the panel itself or one of its
\* descendants as target.
TransitionEnd ==
  \E e \in panels, onSelf \in BOOLEAN :
    /\ \E k \in DOMAIN Slots : Listening(W, e, Slots[k])
    /\ Commit(dispatchTransitionEnd(
                         Begin(W),
                         Slots, e, onSelf))

\* The fallback timer of a token expires.
TransitionTimeout ==
  \E i \in 1..created, which \in {"openTimeout", "closeTimeout"} :
    /\ inst[i][which].timeoutId
    /\ Commit(executeOnce(Begin(W),
                                   i, which))

\* The global click handler for [data-bs-toggle="sheet"] triggers; the trigger
\* carries the page's options as data-bs-* attributes.
TriggerClick ==
  \E e \in panels, prevented \in BOOLEAN, compensate \in BOOLEAN :
    /\ INSTANCES[e] = NoInst => created < MaxInstances
    /\ LET w1 == getOrCreateInstance(Begin(W), e,
                                     Merge(Merge(Default, NoOptions), options))
       IN /\ prevented => toggleAsks(w1, w1.ret)
          /\ compensate => showAsks(w1, w1.ret) /\ ~prevented
          /\ Commit(toggle(w1, w1.ret, prevented, compensate))

\* keydown Escape on the document
KeyEscape ==
  \E cancelling \in SUBSET (1..created) :
    /\ \E i \in 1..created : inst[i].handlers.escape
    /\ \A i \in 1..created : inst[i].handlers.escape => inst[i].shakeTimers < MaxShake
    /\ \A i \in cancelling :
         inst[i].handlers.escape /\ Cfg(W, i).backdrop.type # "string" /\ hideAsks(W, i)
    /\ Commit(dispatchEscape(Begin(W), IdSeq, cancelling))

\* keydown Tab (or Shift+Tab) with the focus on panel e or on one of its
\* controls, while the panel has a focusTrap listener.
KeyTab ==
  \E e \in panels, shiftKey \in BOOLEAN :
    /\ \/ activeElement = e
       \/ \E k \in 1..Len(PanelFocusables[e]) : PanelFocusables[e][k] = activeElement
    /\ \E i \in 1..created : inst[i].focusTrapListeners > 0 /\ inst[i].focusTrapTarget = e
    /\ LET w1 == dispatchTab(Begin(W), IdSeq, e, shiftKey)
       IN Commit(IF w1.defaultPrevented THEN w1 ELSE defaultTab(w1, e, shiftKey))

\* The timer of #shakeSheet expires.
ShakeTimeout ==
  \E i \in 1..created :
    /\ inst[i].shakeTimers > 0
    /\ Commit(shakeTimeout(Begin(W), i))

\* click on a [data-bs-dismiss="sheet"] button of panel e
DismissClick ==
  \E i \in 1..created, prevented \in BOOLEAN :
    /\ inst[i].handlers.dismiss
    /\ HasDismissButton[El(W, i)]
    /\ prevented => hideAsks(W, i)
    /\ Commit(hide(Begin(W), i, prevented))

\* click on the backdrop of instance i (a static backdrop has no listener)
BackdropClick ==
  \E i \in 1..created, prevented \in BOOLEAN :
    /\ inst[i].backdrop.exists
    /\ ~inst[i].backdrop.static
    /\ prevented => hideAsks(W, i)
    /\ Commit(backdropClick(Begin(W), i, prevented))

\* The user clicks into a control of a panel that is displayed and not
\* inert, or a script calls focus() on it.
FocusControl ==
  \E e \in panels, k \in 1..2 :
    /\ k <= Len(PanelFocusables[e])
    /\ "show" \in classes[e]
    /\ ~inert[e]
    /\ activeElement # PanelFocusables[e][k]
    /\ Commit(focusOn(Begin(W), PanelFocusables[e][k]))

\* pointerdown on the drag handle of a panel
PointerDownWithin(ys, sessions) ==
  \E i \in 1..created, clientY \in ys :
    /\ inst[i].handlers.pointerDown
    /\ drags < sessions
    /\ Commit(onPointerDown([Begin(W) EXCEPT !.drags = @ + 1], i, clientY))

PointerDownAt(ys) == PointerDownWithin(ys, MaxDrags)

PointerDown == PointerDownAt(StartYs)

\* pointermove on the document
PointerMoveTo(ys, dts) ==
  \E clientY \in ys, deltaTime \in dts :
    /\ \E i \in 1..created : inst[i].handlers.pointerMove
    /\ Commit(dispatchPointerMove(Begin(W), IdSeq, clientY, deltaTime))

PointerMove == PointerMoveTo(MoveYs, DeltaTimes)

\* pointerup or pointercancel on the document
PointerUp ==
  /\ \E i \in 1..created : inst[i].handlers.pointerUp
  /\ Commit(dispatchPointerUp(Begin(W), IdSeq))

\* The browser runs a frame callback instance i requested.
RenderFrameAt(progresses) ==
  \E i \in 1..created, progress \in progresses, prevented \in BOOLEAN :
    /\ inst[i].frames > 0
    /\ inst[i].animationFrame.kind # "settle" => progress = 1000
    /\ prevented =>
         /\ inst[i].animationFrame.kind = "settle"
         /\ inst[i].animationFrame.close
         /\ progress = 1000
         /\ hideAsks(W, i)
    /\ Commit(frameCallback(Begin(W), i, progress, prevented))

RenderFrame == RenderFrameAt(Progresses)

\* The browser runs a frame callback of instance i; for the settle animation
\* it does so elapsed ms after the release.
RenderFrameAfter(elapseds) ==
  \E i \in 1..created, elapsed \in elapseds, prevented \in BOOLEAN :
    /\ inst[i].frames > 0
    /\ prevented =>
         /\ inst[i].animationFrame.kind = "settle"
         /\ inst[i].animationFrame.close
         /\ El(W, i) # NullEl
         /\ progressAt(W, i, elapsed) = 1000
         /\ hideAsks(W, i)
    /\ Commit(frameCallback(Begin(W), i,
                            IF El(W, i) = NullEl THEN 1000 ELSE progressAt(W, i, elapsed),
                            prevented))

Next ==
  \/ Construct
  \/ GetInstance
  \/ GetOrCreateInstance
  \/ Show
  \/ Hide
  \/ Toggle
  \/ Dispose
  \/ TransitionEnd
  \/ TransitionTimeout
  \/ TriggerClick
  \/ KeyEscape
  \/ KeyTab
  \/ FocusControl
  \/ ShakeTimeout
  \/ DismissClick
  \/ BackdropClick
  \/ PointerDown
  \/ PointerMove
  \/ PointerUp
  \/ RenderFrame

Spec == Init /\ [][Next]_vars

\* ------------------------------------------------------------- two sheets
\* A page with two panels, each with its own sheet and its own options,
\* driven by script and by the Escape key: the sheets are constructed, shown,
\* hidden and disposed in any order, and their transitions end by
\* transitionend or by the fallback timer.
\* The inline padding-right/overflow of <body> before any sheet is shown:
\* none, or the page's own.
BodyStyles == {"", "page"}

TwoInit == InitOf({"e1", "e2"}, {NoOptions}, {OffsetHeight}, BodyStyles)

TwoConstruct == ConstructWith(PageOptions)

TwoNext ==
  \/ TwoConstruct
  \/ Show
  \/ Hide
  \/ Dispose
  \/ TransitionEnd
  \/ TransitionTimeout
  \/ KeyEscape
  \/ ShakeTimeout

TwoSpec == TwoInit /\ [][TwoNext]_vars

\* -------------------------------------------------------- gesture sessions
\* A page with one panel whose height and whose gesture options vary, and
\* pointer events at many positions and speeds: the sheet is opened and
\* closed by its trigger and dragged by its handle.
Heights == {60, 400}

GestureOptions ==
  { NoOptions,
    [swipeThreshold |-> Num(0), closeThresholdRatio |-> Num(500)],
    [swipeThreshold |-> Num(300000), projectionTime |-> Num(0),
     dragResistanceUp |-> Num(0), dragResistanceDown |-> Num(1000)],
    [velocityThreshold |-> Num(2000), minCloseDistance |-> Num(0),
     closeThresholdRatio |-> Num(1000),
     dragResistanceUp |-> Num(1000), dragResistanceDown |-> Num(0)] }

GestureStartYs == {200}
GestureMoveYs == {0, 150, 230, 410}
GestureDeltaTimes == {0, 100, 1000}

GestureInit == InitOf({"e1"}, GestureOptions, Heights, {""})

GesturePointerDown == PointerDownAt(GestureStartYs)

GesturePointerMove == PointerMoveTo(GestureMoveYs, GestureDeltaTimes)

GestureNext ==
  \/ TriggerClick
  \/ TransitionEnd
  \/ TransitionTimeout
  \/ GesturePointerDown
  \/ GesturePointerMove
  \/ PointerUp
  \/ RenderFrame

GestureSpec == GestureInit /\ [][GestureNext]_vars

\* ----------------------------------------------------------- render frames
\* A page with one panel whose sheet is dragged up to MaxSessions times,
\* with render frames that fall into the settle animation as well as at its
\* end, and every way of asking the sheet to hide.  The animation lasts the
\* default 300 ms, 0 ms or -3000 ms: the constructor accepts any number.
MaxSessions == 2

FrameOptions ==
  {NoOptions, [animationDuration |-> Num(0)], [animationDuration |-> Num(-3000000)]}

\* ms between the release and a render frame.
FrameElapsed == {150, 300}

FrameInit == InitOf({"e1"}, FrameOptions, {OffsetHeight}, {""})

FramePointerDown == PointerDownWithin(StartYs, MaxSessions)

FrameRender == RenderFrameAfter(FrameElapsed)

FrameNext ==
  \/ TriggerClick
  \/ Hide
  \/ KeyEscape
  \/ DismissClick
  \/ BackdropClick
  \/ TransitionEnd
  \/ TransitionTimeout
  \/ FramePointerDown
  \/ PointerMove
  \/ PointerUp
  \/ FrameRender

FrameSpec == FrameInit /\ [][FrameNext]_vars

\* ================================================================== claims
\* What a call that is a no-op leaves behind: the program's state as it was,
\* no notification, no exception.
Silent(w0, w1) ==
  /\ Prog(w1) = Prog(w0)
  /\ w1.emitted = <<>>
  /\ w1.err = ""

\* C1: show() has an effect only in state Hidden and hide() only in state
\* Shown.  In every reachable state, a show() on a live instance that is not
\* Hidden and a hide() on a live instance that is not Shown change nothing,
\* dispatch nothing and throw nothing, whatever a listener would answer.
C1_ShowHideOnlyWhenSettled ==
  \A i \in 1..created :
    Live(W, i) =>
      /\ StateOf(W, i) # "Hidden" =>
           \A prevented \in BOOLEAN, compensate \in BOOLEAN :
             Silent(W, show(Begin(W), i, prevented, compensate))
      /\ StateOf(W, i) # "Shown" =>
           \A prevented \in BOOLEAN :
             Silent(W, hide(Begin(W), i, prevented))

\* An instance in the middle of its opening transition right after a step
\* that dispatched nothing: a call was rejected while Showing.
C1_Witness ==
  \E i \in 1..created :
    /\ StateOf(W, i) = "Showing"
    /\ lastNote[i] = "show"
    /\ emitted = <<>>

\* No timer, listener or frame callback of instance i is pending.
Settled(w, i) ==
  /\ ~w.inst[i].openTimeout.timeoutId /\ ~w.inst[i].openTimeout.listening
  /\ ~w.inst[i].closeTimeout.timeoutId /\ ~w.inst[i].closeTimeout.listening
  /\ w.inst[i].animationFrame.kind = "none"

\* C2: whatever calls and signals came before, a live instance with no
\* transition callback and no frame callback pending is Shown or Hidden.
C2_SettledIsShownOrHidden ==
  \A i \in 1..created :
    Live(W, i) /\ Settled(W, i) => StateOf(W, i) \in {"Shown", "Hidden"}

\* An instance that went through a whole opening and a whole closing
\* transition and has nothing pending.
C2_Witness ==
  \E i \in 1..created :
    /\ Live(W, i) /\ Settled(W, i)
    /\ lastNote[i] = "hidden"
    /\ StateOf(W, i) = "Hidden"

\* The lifecycle notification that may follow another one.
NextNote(last) ==
  CASE last = "none" -> "show"
    [] last = "show" -> "shown"
    [] last = "shown" -> "hide"
    [] last = "hide" -> "hidden"
    [] last = "hidden" -> "show"

\* The notifications of instance i in notes that are lifecycle notifications
\* and were not cancelled continue the cycle from last.
RECURSIVE InCycle(_, _, _)
InCycle(i, last, notes) ==
  IF notes = <<>>
  THEN TRUE
  ELSE LET n == Head(notes)
       IN IF n.inst = i /\ n.name \in Lifecycle /\ ~n.prevented
          THEN n.name = NextNote(last) /\ InCycle(i, n.name, Tail(notes))
          ELSE InCycle(i, last, Tail(notes))

\* C3: for one instance the lifecycle notifications that were not cancelled
\* form a prefix of (show, shown, hide, hidden)*: every step dispatches, for
\* each instance, a continuation of the cycle from its last such notification.
C3_LifecycleOrder ==
  [][\A i \in Ids : InCycle(i, lastNote[i], emitted')]_vars

\* A step that dispatched hidden for an instance, which closes a full cycle.
C3_Witness ==
  \E k \in 1..Len(emitted) :
    /\ emitted[k].name = "hidden"
    /\ lastNote[emitted[k].inst] = "hidden"

\* What a listener of notification n sees through isShown, isTransitioning
\* and the panel's class list, and whether the completion signal of the
\* transition came first.
ObservedAt(n) ==
  /\ n.name = "show" => ~n.isShown /\ ~n.isTransitioning /\ ~n.visible
  /\ n.name = "hide" => n.isShown /\ ~n.isTransitioning /\ n.visible
  /\ n.name = "shown" => n.isShown /\ ~n.isTransitioning /\ n.openFired
  /\ n.name = "hidden" => ~n.isShown /\ ~n.isTransitioning /\ n.closeFired

\* C4: a listener observes, at show, isShown = false, isTransitioning = false
\* and no visible marker; at hide, isShown = true, isTransitioning = false and
\* the visible marker; at shown, isShown = true and isTransitioning = false;
\* at hidden, both false; shown and hidden come after the completion signal
\* of their transition.  The statement as the specification makes it.
C4_ObservedState ==
  \A k \in 1..Len(emitted) : ObservedAt(emitted[k])

\* The call dispatched exactly one notification, name, that was cancelled.
OnlyCancelled(w, i, name) ==
  /\ Len(w.emitted) = 1
  /\ w.emitted[1].inst = i
  /\ w.emitted[1].name = name
  /\ w.emitted[1].prevented

\* Instance i has no handler attached.
NoHandlers(w, i) ==
  \A h \in DOMAIN w.inst[i].handlers : ~w.inst[i].handlers[h]

\* C5: when a listener cancels the show notification, show() leaves the state
\* Hidden and applies nothing.  In every reachable state with a live Hidden
\* instance, a cancelled show() leaves the whole program state (the panel's
\* classes, the backdrop, the inert and body styles, the handlers, the
\* tokens) as it was, the instance Hidden with no backdrop, no node made
\* inert, no handler and no transition callback pending, and dispatches only
\* the cancelled show.
C5_CancelledShow ==
  \A i \in 1..created :
    Live(W, i) /\ StateOf(W, i) = "Hidden" =>
      \A compensate \in BOOLEAN :
        LET w1 == show(Begin(W), i, TRUE, compensate)
        IN /\ Prog(w1) = Prog(W)
           /\ w1.err = ""
           /\ OnlyCancelled(w1, i, "show")
           /\ ~w1.emitted[1].visible => "show" \notin w1.classes[El(w1, i)]
           /\ StateOf(w1, i) = "Hidden"
           /\ ~w1.inst[i].backdrop.exists
           /\ DOMAIN w1.inst[i].inertedNodes = {}
           /\ NoHandlers(w1, i)
           /\ Settled(w1, i)

\* The state right after a show() whose notification was cancelled.
C5_Witness ==
  /\ Len(emitted) = 1
  /\ emitted[1].name = "show"
  /\ emitted[1].prevented
  /\ StateOf(W, emitted[1].inst) = "Hidden"

\* C6: when a listener cancels the hide notification, hide() changes nothing.
\* In every reachable state with a live Shown instance, a cancelled hide()
\* leaves the whole program state (marker, backdrop, inert markers, handlers,
\* focus containment, gesture session) as it was, the instance Shown, and
\* dispatches only the cancelled hide.
C6_CancelledHide ==
  \A i \in 1..created :
    Live(W, i) /\ StateOf(W, i) = "Shown" =>
      LET w1 == hide(Begin(W), i, TRUE)
      IN /\ Prog(w1) = Prog(W)
         /\ w1.err = ""
         /\ OnlyCancelled(w1, i, "hide")
         /\ StateOf(w1, i) = "Shown"
         /\ "show" \in w1.classes[El(w1, i)]
         /\ ~w1.inst[i].closeTimeout.timeoutId /\ ~w1.inst[i].closeTimeout.listening

\* The state right after a cancelled hide() on an instance that is Shown and
\* in the middle of a drag.
C6_Witness ==
  /\ Len(emitted) = 1
  /\ emitted[1].name = "hide"
  /\ emitted[1].prevented
  /\ StateOf(W, emitted[1].inst) = "Shown"
  /\ inst[emitted[1].inst].state.isDragging

\* Settlement of instance i: its pending frame callback runs to the end of
\* the animation, then the fallback timer of each pending token expires.
settle(w, i) ==
  LET w1 == IF w.inst[i].animationFrame.kind # "none"
            THEN frameCallback(w, i, 1000, FALSE)
            ELSE w
      w2 == IF w1.inst[i].openTimeout.timeoutId THEN executeOnce(w1, i, "openTimeout") ELSE w1
  IN IF w2.inst[i].closeTimeout.timeoutId THEN executeOnce(w2, i, "closeTimeout") ELSE w2

\* toggle(); settle; toggle(); settle with no listener cancelling.
toggleTwice(w, i, compensate) ==
  settle(toggle(settle(toggle(w, i, FALSE, compensate), i), i, FALSE, compensate), i)

\* C7: from a settled state (Shown or Hidden) and with no listener
\* cancelling, toggle(); settle; toggle(); settle brings the instance back to
\* the state it started in, passing through the opposite one; a toggle()
\* while Showing or Hiding changes nothing.
C7_ToggleTwice ==
  \A i \in 1..created :
    Live(W, i) =>
      /\ StateOf(W, i) \in {"Shown", "Hidden"} =>
           \A compensate \in BOOLEAN :
             /\ StateOf(toggleTwice(Begin(W), i, compensate), i) = StateOf(W, i)
             /\ toggleTwice(Begin(W), i, compensate).inst[i].state.isShown
                  = W.inst[i].state.isShown
             /\ StateOf(settle(toggle(Begin(W), i, FALSE, compensate), i), i)
                  = (IF StateOf(W, i) = "Shown" THEN "Hidden" ELSE "Shown")
      /\ StateOf(W, i) \in {"Showing", "Hiding"} =>
           \A prevented \in BOOLEAN, compensate \in BOOLEAN :
             Silent(W, toggle(Begin(W), i, prevented, compensate))

\* An instance that went through toggle(); settle; toggle(); settle: both of
\* its tokens have fired, the last step dispatched hidden, and it is Hidden.
C7_Witness ==
  \E i \in 1..created :
    /\ StateOf(W, i) = "Hidden"
    /\ inst[i].openTimeout.isExecuted
    /\ inst[i].closeTimeout.isExecuted
    /\ Len(emitted) = 1
    /\ emitted[1].inst = i
    /\ emitted[1].name = "hidden"

\* The live instances whose element is e.
InstancesOf(w, e) == {i \in 1..w.created : El(w, i) = e}

\* The call gave back instance i and did nothing else.
Gave(w0, w1, i) ==
  /\ w1.ret = i
  /\ Silent(w0, w1)

\* C8: there is at most one live instance per panel element, the one the
\* registry holds; the constructor and getOrCreateInstance on an element that
\* has an instance give back that instance, whatever options are passed, and
\* getInstance gives it back as long as it is not disposed.
C8_OneInstancePerElement ==
  /\ \A e \in panels :
       /\ Cardinality(InstancesOf(W, e)) <= 1
       /\ InstancesOf(W, e) =
            (IF INSTANCES[e] = NoInst THEN {} ELSE {INSTANCES[e]})
       /\ INSTANCES[e] # NoInst =>
            \A config \in {options, BadOptions} :
              /\ Gave(W, construct(Begin(W), e, config), INSTANCES[e])
              /\ Gave(W, getOrCreateInstance(Begin(W), e, config), INSTANCES[e])
  /\ \A i \in 1..created :
       Live(W, i) => getInstance(W, El(W, i)) = i

\* The element has its second instance, after the first was disposed.
C8_Witness ==
  \E e \in panels :
    /\ INSTANCES[e] = 2
    /\ Disposed(W, 1)
    /\ StateOf(W, 2) = "Shown"

\* Every public call on the disposed instance i is a silent no-op in w.
DeadCallsSilent(w, i) ==
  /\ Silent(w, dispose(w, i))
  /\ \A prevented \in BOOLEAN, compensate \in BOOLEAN :
       /\ Silent(w, show(w, i, prevented, compensate))
       /\ Silent(w, hide(w, i, prevented))
       /\ Silent(w, toggle(w, i, prevented, compensate))

\* A construction on element e in w gives a new object, registered for e and
\* Hidden.
FreshInstance(w, e) ==
  LET w1 == construct(w, e, w.options)
  IN /\ w1.err = ""
     /\ w1.ret \notin 1..w.created
     /\ w1.INSTANCES[e] = w1.ret
     /\ StateOf(w1, w1.ret) = "Hidden"

\* C9: dispose() works from every state and is idempotent.  In every
\* reachable state, dispose() of a live instance throws nothing, dispatches
\* nothing and leaves the element without an instance (getInstance gives
\* null); on the disposed instance a second dispose() and every show(),
\* hide() and toggle() are silent no-ops; and a construction on the same
\* element gives a distinct instance in state Hidden.
C9_DisposeIdempotent ==
  \A i \in 1..created :
    /\ Live(W, i) =>
         LET w1 == dispose(Begin(W), i)
         IN /\ w1.err = ""
            /\ w1.emitted = <<>>
            /\ Disposed(w1, i)
            /\ getInstance(w1, El(W, i)) = NoInst
            /\ DeadCallsSilent(w1, i)
            /\ created < MaxInstances => FreshInstance(w1, El(W, i))
    /\ Disposed(W, i) => DeadCallsSilent(Begin(W), i)

\* An instance disposed in the middle of its closing transition, and a second
\* instance, Hidden, on the same element.
C9_Witness ==
  /\ Disposed(W, 1)
  /\ lastNote[1] = "hide"
  /\ \E e \in panels : INSTANCES[e] = 2
  /\ StateOf(W, 2) = "Hidden"
  /\ lastNote[2] = "none"

\* Nothing of the token is pending: no fallback timer, no listener.
TokenDead(tok) == ~tok.timeoutId /\ ~tok.listening

\* A transitionend on element e, with the element itself as target, leaves
\* the disposed instance i alone and notifies for no instance but the one
\* registered for e.
SignalPassesBy(w, i, e) ==
  LET w1 == dispatchTransitionEnd(w, Slots, e, TRUE)
  IN /\ w1.inst[i] = w.inst[i]
     /\ w1.err = "" /\ w1.log = ""
     /\ \A k \in 1..Len(w1.emitted) :
          /\ w1.emitted[k].inst # i
          /\ w1.emitted[k].inst = w.INSTANCES[e]

\* C10: dispose() always cancels a pending transition token.  A disposed
\* instance has no fallback timer and no transitionend listener left, in
\* particular right after a dispose() during Showing or Hiding; a late
\* expiry or a transitionend on any panel runs no callback of it and
\* dispatches nothing for it, and what a transitionend does to the instance
\* now registered for the element is that instance's own token only.
C10_TokenCancelledOnDispose ==
  \A i \in 1..created :
    /\ Live(W, i) =>
         LET w1 == dispose(Begin(W), i)
         IN /\ TokenDead(w1.inst[i].openTimeout)
            /\ TokenDead(w1.inst[i].closeTimeout)
            /\ \A e \in panels : SignalPassesBy(w1, i, e)
    /\ Disposed(W, i) =>
         /\ TokenDead(inst[i].openTimeout)
         /\ TokenDead(inst[i].closeTimeout)
         /\ \A which \in {"openTimeout", "closeTimeout"} :
              inst[i][which] # NullToken =>
                Silent(W, executeOnce(Begin(W), i, which))
         /\ \A e \in panels : SignalPassesBy(Begin(W), i, e)
         /\ \A k \in 1..Len(emitted) : emitted[k].inst # i

\* Instance 1 was disposed while Showing; instance 2 on the same element has
\* just completed its own opening transition.
C10_Witness ==
  /\ Disposed(W, 1)
  /\ lastNote[1] = "show"
  /\ StateOf(W, 2) = "Shown"
  /\ Len(emitted) = 1
  /\ emitted[1].inst = 2
  /\ emitted[1].name = "shown"

\* Callbacks instance i scheduled and that may still run: the fallback timer
\* of a token, a frame callback, a #shakeSheet timer.
PendingCallbacks(w, i) ==
  \/ w.inst[i].openTimeout.timeoutId
  \/ w.inst[i].closeTimeout.timeoutId
  \/ w.inst[i].animationFrame.kind # "none"
  \/ w.inst[i].shakeTimers > 0

\* C11: dispose() cancels the pending timers and frames: a disposed instance
\* has no transition fallback timer, no drag or settle frame callback and no
\* shake timer left that could run its body.  The statement as the
\* specification makes it.
C11_NoCallbackAfterDispose ==
  \A i \in 1..created : Disposed(W, i) => ~PendingCallbacks(W, i)

\* C12: dispose() removes every event listener the instance attached: a
\* disposed instance has no Escape, Tab, dismiss-click or pointer listener
\* left and no backdrop with its click listener, so that no such event is
\* handled by it any more.  The statement as the specification makes it.
C12_NoListenerAfterDispose ==
  \A i \in 1..created :
    Disposed(W, i) => NoHandlers(W, i) /\ ~inst[i].backdrop.exists

\* Options objects with a value of a type that is not allowed: one wrong
\* value, a wrong value beside right ones, two wrong values.
MistypedOptions ==
  { BadOptions,
    [backdrop |-> Num(1000)],
    [keyboard |-> Str("true")],
    [backdrop |-> Str("static"), dragResistanceDown |-> Bool(TRUE)],
    [focus |-> Num(0), swipeThreshold |-> Str("50")] }

\* The call threw the TypeError that names the first mistyped option of config,
\* the types allowed for it and the type received, and changed nothing.
RaisedTypeError(w0, w1, config) ==
  /\ w1.err = "TypeError"
  /\ w1.message.option \in DOMAIN config
  /\ w1.message.expected = DefaultType[w1.message.option]
  /\ w1.message.received = getValueType(config[w1.message.option])
  /\ w1.message.received \notin w1.message.expected
  /\ Prog(w1) = Prog(w0)
  /\ w1.emitted = <<>>

SameConfig(w0, w1, i) == w1.inst[i].config = w0.inst[i].config

\* No call on the element of the live instance i with other options, and no
\* show(), hide() or toggle(), changes an option of i.
ConfigKeptByCalls(w, i) ==
  /\ \A config \in PageOptions \cup MistypedOptions :
       /\ SameConfig(w, construct(Begin(w), El(w, i), config), i)
       /\ SameConfig(w, getOrCreateInstance(Begin(w), El(w, i), config), i)
  /\ \A p \in BOOLEAN, c \in BOOLEAN :
       /\ SameConfig(w, show(Begin(w), i, p, c), i)
       /\ SameConfig(w, hide(Begin(w), i, p), i)
       /\ SameConfig(w, toggle(Begin(w), i, p, c), i)

\* C14: the configuration of an instance is fixed at construction.  In every
\* reachable state a live instance has the options it was constructed with
\* (the defaults overridden by the options object of the page), whatever
\* steps were taken since, and no constructor or getOrCreateInstance call on
\* its element with other options, and no show(), hide() or toggle(), changes
\* one.
C14_ConfigFixed ==
  \A i \in 1..created :
    Live(W, i) =>
      /\ Cfg(W, i) = Merge(Default, options)
      /\ ConfigKeptByCalls(W, i)

\* A shown instance that was constructed with options other than the defaults
\* and has them still, beside a disposed instance.
C14_Witness ==
  \E i \in 1..created :
    /\ StateOf(W, i) = "Shown"
    /\ options # NoOptions
    /\ Cfg(W, i) = Merge(Default, options)
    /\ Cfg(W, i) # Default
    /\ \E j \in 1..created : Disposed(W, j)

\* The release of a gesture session resolved "close": the settle animation to
\* the extent of the panel, with hide() as its completion, is under way.
CloseReleased(w, i) ==
  /\ Live(w, i)
  /\ w.inst[i].animationFrame.kind = "settle"
  /\ w.inst[i].animationFrame.close

\* C15: whenever a release resolved "close", the settle animation ends by
\* invoking hide() and, with no listener cancelling hide, the sheet is Hidden
\* after settlement, whether the release came in state Showing or in state
\* Shown.  The statement as the specification makes it.
C15_CloseReleaseHides ==
  \A i \in 1..created :
    CloseReleased(W, i) => StateOf(settle(Begin(W), i), i) = "Hidden"

\* C18: the ratio of every slide notification lies in [0, 1] (0..1000 in
\* thousandths), for every drag offset in either direction.  The statement as
\* the specification makes it.
C18_SlideRatioInUnitInterval ==
  \A k \in 1..Len(emitted) :
    emitted[k].name = "slide" =>
      emitted[k].ratio >= 0 /\ emitted[k].ratio <= 1000

\* currentY - startY of the gesture session of instance i, in px.
RawDelta(w, i) == w.inst[i].gesture.currentY - w.inst[i].gesture.startY

\* The pointer is released: pointerup on the document.
release(w) == dispatchPointerUp(Begin(w), IdSeq)

\* The settle animation that is pending for instance i goes to offset 0 and
\* has no completion; when it and the opening transition have run to their
\* end the panel is at offset 0, the sheet is Shown and no hide notification
\* was dispatched.
SnapsBack(w, i) ==
  LET f == w.inst[i].animationFrame
      w2 == settle(w, i)
  IN /\ f.kind = "settle" /\ f.targetY = 0 /\ ~f.close
     /\ w2.transform[El(w, i)] = 0
     /\ StateOf(w2, i) = "Shown"
     /\ \A k \in 1..Len(w2.emitted) : w2.emitted[k].name # "hide"

\* C16: a gesture session released with net upward motion (rawDelta < 0)
\* settles back to offset 0 and never causes hide(), whatever the velocity,
\* the thresholds and the height of the panel.
C16_UpwardNeverCloses ==
  \A i \in 1..created :
    Live(W, i) /\ inst[i].state.isDragging /\ RawDelta(W, i) < 0 =>
      SnapsBack(release(W), i)

\* rawDelta + velocity * projectionTime, in 1/1000000 px.
Projected(w, i) ==
  RawDelta(w, i) * 1000000 + w.inst[i].gesture.velocity * Cfg(w, i).projectionTime.num

\* max(swipeThreshold, extent * closeThresholdRatio), in 1/1000 px.
CloseThreshold(w, i) ==
  LET a == Cfg(w, i).swipeThreshold.num
      b == w.inst[i].gesture.sheetHeight * Cfg(w, i).closeThresholdRatio.num
  IN IF a > b THEN a ELSE b

FastEnough(w, i) ==
  /\ Abs(w.inst[i].gesture.velocity) > Cfg(w, i).velocityThreshold.num
  /\ RawDelta(w, i) * 1000 > Cfg(w, i).minCloseDistance.num

\* The session of instance i was released upward, at a moment the pointer
\* moved down fast enough to pass the close threshold; it snaps back.
C16_Witness ==
  \E i \in 1..created :
    /\ Live(W, i)
    /\ ~inst[i].state.isDragging
    /\ RawDelta(W, i) < 0
    /\ Projected(W, i) > CloseThreshold(W, i) * 1000
    /\ inst[i].animationFrame.kind = "settle"
    /\ inst[i].animationFrame.targetY = 0
    /\ ~inst[i].animationFrame.close

\* C17: a release with rawDelta >= 0 resolves "close" exactly when
\* projected > max(swipeThreshold, extent * closeThresholdRatio) or
\* (|velocity| > velocityThreshold and rawDelta > minCloseDistance), with
\* projected = rawDelta + velocity * projectionTime; then the panel is animated
\* to its extent with hide() as completion.  In every other case the panel
\* snaps back to offset 0 and the sheet stays Shown.
C17_CloseDecision ==
  \A i \in 1..created :
    Live(W, i) /\ inst[i].state.isDragging /\ RawDelta(W, i) >= 0 =>
      LET w1 == release(W)
          f == w1.inst[i].animationFrame
      IN IF \/ Projected(W, i) > CloseThreshold(W, i) * 1000
            \/ FastEnough(W, i)
         THEN /\ f.kind = "settle" /\ f.close
              /\ f.targetY = inst[i].gesture.sheetHeight * 100
         ELSE SnapsBack(w1, i)

\* A release that closes by its speed alone, the projected offset being below
\* the threshold.
C17_Witness ==
  \E i \in 1..created :
    /\ StateOf(W, i) = "Shown"
    /\ ~inst[i].state.isDragging
    /\ RawDelta(W, i) >= 0
    /\ Projected(W, i) <= CloseThreshold(W, i) * 1000
    /\ FastEnough(W, i)
    /\ inst[i].animationFrame.kind = "settle"
    /\ inst[i].animationFrame.close

\* Raw deltas of a drag, in px.
RawDeltas == {-2000, -200, -50, -1, 0, 1, 30, 210, 2000}

\* The adjusted delta of a drag by deltaY, in 1/100 px.
AdjustedDelta(w, i, deltaY) ==
  calculateResistantPosition(w, i, deltaY) - w.inst[i].gesture.startTranslateY

\* The resistance that applies to a drag by deltaY, in thousandths.
ResistanceFor(w, i, deltaY) ==
  IF deltaY < 0 THEN Cfg(w, i).dragResistanceUp.num ELSE Cfg(w, i).dragResistanceDown.num

\* C19: the resistance function.  For every panel of height h > 0 and every
\* resistance in [0, 1]: a raw delta of 0 gives the start offset; the adjusted
\* delta has the sign of the raw delta, never exceeds it in magnitude, is
\* non-decreasing in the magnitude of the raw delta and, for a resistance > 0,
\* stays strictly below scale / resistance with scale = h * 0.25.
C19_ResistanceFunction ==
  \A i \in 1..created :
    Live(W, i) /\ inst[i].gesture.sheetHeight > 0 =>
      \A d \in RawDeltas :
        LET a == AdjustedDelta(W, i, d)
            r == ResistanceFor(W, i, d)
            scale == inst[i].gesture.sheetHeight * 25
        IN /\ r >= 0 /\ r <= 1000
           /\ d = 0 => a = 0
           /\ d > 0 => a > 0
           /\ d < 0 => a < 0
           /\ Abs(a) <= Abs(d) * 100
           /\ \A d2 \in RawDeltas :
                d * d2 > 0 /\ Abs(d) <= Abs(d2) =>
                  Abs(a) <= Abs(AdjustedDelta(W, i, d2))
           /\ r > 0 => Abs(a) * r < scale * 1000

\* A frame has moved the dragged panel by less than the pointer has moved.
C19_Witness ==
  \E i \in 1..created :
    /\ inst[i].state.isDragging
    /\ inst[i].animationFrame.kind = "none"
    /\ RawDelta(W, i) # 0
    /\ transform[El(W, i)] = calculateResistantPosition(W, i, RawDelta(W, i))
    /\ Abs(AdjustedDelta(W, i, RawDelta(W, i))) < Abs(RawDelta(W, i)) * 100
    /\ ResistanceFor(W, i, RawDelta(W, i)) > 0

\* The inertness a child of <body> has before any sheet is shown.
InitialInert(n) == n = "aside"

\* C20: with two sheets open at the same time, each instance restores only
\* the inertness markers it applied itself: once every instance is Hidden or
\* disposed, every node outside the panels' backdrops has exactly the
\* inertness it had before either sheet was shown, whatever the order of the
\* show, hide and dispose calls.  The statement as the specification makes it.
C20_InertRestoredExactly ==
  (\A i \in 1..created : StateOf(W, i) \in {"Hidden", "Disposed"}) =>
    \A n \in panels \cup OutsideNodes : inert[n] = InitialInert(n)

\* show() of instance i with no listener cancelling, run to the end of the
\* opening transition.
shownAfter(w, i, compensate) == settle(show(Begin(w), i, FALSE, compensate), i)

\* hide() of instance i, run to the end of the closing transition.
hiddenAfter(w, i) == settle(hide(Begin(w), i, FALSE), i)

\* C21: the layout compensation of <body> is restored to its exact prior
\* state.  With no sheet open, a show of a hidden sheet followed by the end of
\* its hide, or by dispose, leaves padding-right and overflow of <body> as
\* they were before the show; and the compensation a sheet applied at its show
\* is still there when another sheet, shown after it, is hidden or disposed.
\* The statement as the specification makes it.
C21_BodyStyleRestored ==
  \A i \in 1..created :
    (/\ StateOf(W, i) = "Hidden"
     /\ \A j \in 1..created : StateOf(W, j) \in {"Hidden", "Disposed"}) =>
      \A compensate \in BOOLEAN :
        LET w1 == shownAfter(W, i, compensate)
        IN /\ hiddenAfter(w1, i).bodyStyle = bodyStyle
           /\ dispose(w1, i).bodyStyle = bodyStyle
           /\ \A j \in 1..created :
                j # i /\ StateOf(W, j) = "Hidden" /\ compensate =>
                  LET w2 == shownAfter(w1, j, FALSE)
                  IN /\ hiddenAfter(w2, j).bodyStyle = w1.bodyStyle
                     /\ dispose(w2, j).bodyStyle = w1.bodyStyle

\* C22: the sheet moves the focus back to the element captured at show time
\* only at the end of the hide transition, never at the start of hide() and
\* never on dispose(), and only when the focus option is enabled; with the
\* option disabled neither the end of the show transition nor the end of the
\* hide transition moves the focus.  The statement as the specification makes
\* it.
C22_FocusRestoredOnlyWhenEnabled ==
  \A i \in 1..created :
    Live(W, i) =>
      /\ \A prevented \in BOOLEAN :
           hide(Begin(W), i, prevented).activeElement = activeElement
      /\ dispose(Begin(W), i).activeElement = activeElement
      /\ \A which \in {"openTimeout", "closeTimeout"} :
           inst[i][which].timeoutId /\ ~Truthy(Cfg(W, i).focus) =>
             executeOnce(Begin(W), i, which).activeElement = activeElement
      /\ inst[i].closeTimeout.timeoutId /\ Truthy(Cfg(W, i).focus) =>
           executeOnce(Begin(W), i, "closeTimeout").activeElement =
             inst[i].focus.previousElement

\* Focus containment of instance i is active: the sheet is Showing or Shown
\* and its Tab listener is on its panel.
Containing(w, i) ==
  /\ StateOf(w, i) \in {"Showing", "Shown"}
  /\ w.inst[i].handlers.focusTrap

\* Only the focus and the answer to the event differ between w0 and w1.
OnlyFocusMoved(w0, w1) ==
  /\ [w1 EXCEPT !.activeElement = w0.activeElement,
                !.defaultPrevented = w0.defaultPrevented] = w0

\* C23: while focus containment is active, Shift+Tab with focus on the first
\* eligible target moves focus to the last target and suppresses the default;
\* Tab with focus on the last target moves focus to the first and suppresses
\* the default; every other Tab press, with focus elsewhere or with an empty
\* target list, is left to the default and moves no focus.
C23_TabWrapsAtTheEnds ==
  \A i \in 1..created :
    Containing(W, i) =>
      \A shiftKey \in BOOLEAN :
        LET list == inst[i].focus.focusableElements
            w0 == Begin(W)
            w1 == dispatchTab(w0, IdSeq, El(W, i), shiftKey)
            none == [w0 EXCEPT !.inst[i].focus.focusableElements = <<>>]
        IN /\ Len(list) > 0
           /\ OnlyFocusMoved(w0, w1)
           /\ IF shiftKey /\ activeElement = list[1]
              THEN w1.defaultPrevented /\ w1.activeElement = list[Len(list)]
              ELSE IF ~shiftKey /\ activeElement = list[Len(list)]
              THEN w1.defaultPrevented /\ w1.activeElement = list[1]
              ELSE ~w1.defaultPrevented /\ w1.activeElement = activeElement
           /\ handleTabKey(none, i, shiftKey) = none

\* Focus is on the last of several targets of a shown sheet that contains
\* focus, after a sheet on the same panel was disposed.
C23_Witness ==
  \E i \in 1..created :
    /\ Containing(W, i)
    /\ StateOf(W, i) = "Shown"
    /\ Len(inst[i].focus.focusableElements) > 1
    /\ activeElement = inst[i].focus.focusableElements[Len(inst[i].focus.focusableElements)]
    /\ \E j \in 1..created : Disposed(W, j)

\* C24: an instance has at most one structural-change subscription and at
\* most one Tab listener at a time, and neither while it is Hidden or Hiding
\* or after dispose.  The statement as the specification makes it.
C24_OneSubscriptionOneIntercept ==
  \A i \in 1..created :
    /\ inst[i].focusTrapListeners <= 1
    /\ StateOf(W, i) \in {"Hidden", "Hiding", "Disposed"} =>
         /\ inst[i].focusTrapListeners = 0
         /\ ~inst[i].focus.mutationObserver

\* C25: an instance with the backdrop option enabled owns exactly one backdrop
\* while it is Showing, Shown or Hiding and none while it is Hidden or
\* disposed: the backdrop is created at show and removed at the end of the
\* hide transition, before hidden is dispatched, and the end of the hide
\* transition or the dispose of one instance never removes the backdrop of
\* another.
C25_BackdropOwned ==
  /\ \A i \in 1..created :
       /\ Live(W, i) /\ Truthy(Cfg(W, i).backdrop) =>
            (inst[i].backdrop.exists <=> StateOf(W, i) \in {"Showing", "Shown", "Hiding"})
       /\ StateOf(W, i) \in {"Hidden", "Disposed"} => ~inst[i].backdrop.exists
       /\ \A j \in 1..created :
            j # i /\ Live(W, i) =>
              /\ dispose(Begin(W), i).inst[j].backdrop = inst[j].backdrop
              /\ inst[i].closeTimeout.timeoutId =>
                   executeOnce(Begin(W), i, "closeTimeout").inst[j].backdrop
                     = inst[j].backdrop
  /\ \A k \in 1..Len(emitted) :
       emitted[k].name = "hidden" => ~emitted[k].backdrop

\* One sheet has just dispatched hidden and has no backdrop; the other is
\* Shown and has its own.
C25_Witness ==
  \E i \in 1..created, j \in 1..created :
    /\ i # j
    /\ StateOf(W, i) = "Hidden"
    /\ Truthy(Cfg(W, i).backdrop)
    /\ ~inst[i].backdrop.exists
    /\ \E k \in 1..Len(emitted) : emitted[k].name = "hidden" /\ emitted[k].inst = i
    /\ StateOf(W, j) = "Shown"
    /\ inst[j].backdrop.exists

\* The backdrop option of instance i is "static".
StaticBackdrop(w, i) ==
  Cfg(w, i).backdrop.type = "string" /\ Cfg(w, i).backdrop.str = "static"

\* The lifecycle state of every instance is in w1 what it is in w0, and no
\* notification was dispatched.
SameLifecycle(w0, w1) ==
  /\ \A j \in 1..w0.created : w1.inst[j].state = w0.inst[j].state
  /\ w1.emitted = <<>>
  /\ w1.err = ""

\* C26: with a static backdrop neither a click on the backdrop nor an Escape
\* press changes the lifecycle state.  The click does nothing at all; Escape,
\* when the keyboard option is enabled, only adds the shake class, which its
\* timer takes away again; the sheet stays Showing or Shown.
C26_StaticBackdropStays ==
  \A i \in 1..created :
    Live(W, i) /\ StaticBackdrop(W, i) =>
      /\ \A prevented \in BOOLEAN :
           /\ backdropClick(Begin(W), i, prevented) = Begin(W)
           /\ inst[i].handlers.escape =>
                LET w1 == escapeHandler(Begin(W), i, prevented)
                IN /\ SameLifecycle(W, w1)
                   /\ StateOf(W, i) \in {"Showing", "Shown"}
                   /\ "sheet-static-shake" \in w1.classes[El(W, i)]
                   /\ [w1 EXCEPT !.classes = W.classes,
                                 !.inst[i].shakeTimers = inst[i].shakeTimers] = Begin(W)
      /\ \A cancelling \in SUBSET (1..created) :
           SameLifecycle(W, dispatchEscape(Begin(W), IdSeq, cancelling))
      /\ inst[i].shakeTimers > 0 => SameLifecycle(W, shakeTimeout(Begin(W), i))

\* A shown sheet with a static backdrop is shaking after an Escape press.
C26_Witness ==
  \E i \in 1..created :
    /\ StateOf(W, i) = "Shown"
    /\ StaticBackdrop(W, i)
    /\ inst[i].backdrop.exists
    /\ inst[i].shakeTimers > 0
    /\ "sheet-static-shake" \in classes[El(W, i)]

\* ------------------------------------------------------------------- C27
\* What one Escape press, with no listener cancelling, makes of the page.
afterEscape(w) == dispatchEscape(Begin(w), IdSeq, {})

\* Instance i and what it sets on its own panel are in w1 exactly as they
\* are in w0 (the inert attribute of a panel is set by the other sheets).
SheetUnchanged(w0, w1, i) ==
  /\ w1.inst[i] = w0.inst[i]
  /\ w1.classes[El(w0, i)] = w0.classes[El(w0, i)]
  /\ w1.transform[El(w0, i)] = w0.transform[El(w0, i)]
  /\ w1.aria[El(w0, i)] = w0.aria[El(w0, i)]
  /\ \A k \in 1..Len(w1.emitted) : w1.emitted[k].inst # i

EscapeCloses(w, i) ==
  /\ StateOf(w, i) = "Shown"
  /\ Truthy(Cfg(w, i).keyboard)
  /\ ~StaticBackdrop(w, i)

EscapeIgnoredBy(w, i) ==
  \/ ~Truthy(Cfg(w, i).keyboard)
  \/ StateOf(w, i) \in {"Showing", "Hiding", "Hidden"}

\* C27: one Escape press starts hiding every sheet that is Shown, has
\* keyboard enabled and has a non-static backdrop, and changes no sheet that
\* has keyboard disabled or that is Showing, Hiding or Hidden.
C27_EscapeHidesEveryOpenSheet ==
  \A i \in 1..created :
    Live(W, i) =>
      /\ EscapeCloses(W, i) =>
            /\ StateOf(afterEscape(W), i) = "Hiding"
            /\ \E k \in 1..Len(afterEscape(W).emitted) :
                  /\ afterEscape(W).emitted[k].name = "hide"
                  /\ afterEscape(W).emitted[k].inst = i
      /\ EscapeIgnoredBy(W, i) => SheetUnchanged(W, afterEscape(W), i)

\* ------------------------------------------------------------------- C28
\* The notifications the sheet dispatches without reading the answer.
Unasked == {"shown", "hidden", "slide"}

\* The start of a handler on a page whose listeners cancel every one of them.
BeginCancelling(w) == [Begin(w) EXCEPT !.cancels = Unasked]

\* w1 is w0 but for the answers the listeners gave to the unasked
\* notifications: the same program state, the same notifications in the same
\* order with the same content, the same exception.
SameButAnswers(w0, w1) ==
  /\ Prog(w1) = Prog(w0)
  /\ w1.lastNote = w0.lastNote
  /\ w1.err = w0.err
  /\ Len(w1.emitted) = Len(w0.emitted)
  /\ \A k \in 1..Len(w0.emitted) :
       w1.emitted[k] = [w0.emitted[k] EXCEPT !.prevented = @ \/ w0.emitted[k].name \in Unasked]

\* C28: shown, hidden and slide are not cancelable.  Whatever callback
\* dispatches them (the end of a transition, the fallback timer of a token,
\* a render frame), listeners that cancel them change nothing: the state the
\* callback leaves, lifecycle flags, dragging flag and panel position
\* included, and the notifications it dispatches are those of the same
\* callback with no listener cancelling.
C28_UnaskedNotCancelable ==
  /\ \A e \in panels, onSelf \in BOOLEAN :
       (\E k \in DOMAIN Slots : Listening(W, e, Slots[k])) =>
         SameButAnswers(dispatchTransitionEnd(Begin(W), Slots, e, onSelf),
                        dispatchTransitionEnd(BeginCancelling(W), Slots, e, onSelf))
  /\ \A i \in 1..created, which \in {"openTimeout", "closeTimeout"} :
       inst[i][which].timeoutId =>
         SameButAnswers(executeOnce(Begin(W), i, which),
                        executeOnce(BeginCancelling(W), i, which))
  /\ \A i \in 1..created, progress \in Progresses :
       inst[i].animationFrame.kind # "none" =>
         SameButAnswers(frameCallback(Begin(W), i, progress, FALSE),
                        frameCallback(BeginCancelling(W), i, progress, FALSE))

\* A closing transition is about to end on a page whose listeners cancel
\* hidden: the notification is dispatched, cancelled, and the sheet is Hidden.
C28_Witness ==
  \E i \in 1..created :
    /\ inst[i].closeTimeout.timeoutId
    /\ LET w1 == executeOnce(BeginCancelling(W), i, "closeTimeout")
       IN /\ Len(w1.emitted) = 1
          /\ w1.emitted[1].name = "hidden"
          /\ w1.emitted[1].prevented
          /\ StateOf(w1, i) = "Hidden"

\* ------------------------------------------------------------------- C29
\* The frame callback of instance i runs.
frame(w, i) == frameCallback(w, i, 1000, FALSE)

\* C29: position updates of a drag are coalesced to one per render frame.  An
\* instance never has more than one frame callback pending, and the pending
\* one is the one #animationFrame identifies, drag update or settle
\* animation.  In a session, one move or two moves before the next frame
\* leave one callback pending, and the frame then recomputes the position
\* once, from the latest move, dispatches one slide and leaves none pending.
C29_OneUpdatePerFrame ==
  \A i \in 1..created :
    /\ inst[i].frames = IF inst[i].animationFrame.kind # "none" THEN 1 ELSE 0
    /\ /\ Live(W, i)
       /\ inst[i].handlers.pointerMove
       /\ inst[i].state.isDragging
       /\ inst[i].state.isShown
       => \A y1 \in MoveYs, y2 \in MoveYs, dt \in DeltaTimes :
            LET one == onPointerMove(Begin(W), i, y2, dt)
                two == onPointerMove(onPointerMove(Begin(W), i, y1, dt), i, y2, dt)
            IN /\ two.inst[i].frames = 1
               /\ two.inst[i].animationFrame.kind = "drag"
               /\ two.emitted = <<>>
               /\ two.transform = transform
               /\ Len(frame(two, i).emitted) = 1
               /\ frame(two, i).emitted[1].name = "slide"
               /\ frame(two, i).emitted[1].ratio = frame(one, i).emitted[1].ratio
               /\ frame(two, i).transform[El(W, i)] =
                    calculateResistantPosition(W, i, y2 - inst[i].gesture.startY)
               /\ frame(two, i).inst[i].frames = 0

\* A session with a move since the last frame: the drag update is pending,
\* the panel is not yet where the move puts it, and another move leaves one
\* callback pending.
C29_Witness ==
  \E i \in 1..created :
    /\ Live(W, i)
    /\ inst[i].state.isDragging
    /\ inst[i].animationFrame.kind = "drag"
    /\ inst[i].frames = 1
    /\ transform[El(W, i)] # frame(W, i).transform[El(W, i)]
    /\ \E y \in MoveYs :
         /\ y # inst[i].gesture.currentY
         /\ onPointerMove(W, i, y, 100).inst[i].frames = 1

\* ------------------------------------------------------------------- C30
\* A gesture session or a frame of instance i is in flight.
InFlight(w, i) == w.inst[i].state.isDragging \/ w.inst[i].frames > 0

\* What each trigger of hide() that instance i has makes of w when no
\* listener cancels: the call by script, the Escape key, a click on a dismiss
\* control, a click on the backdrop.
HiddenBy(w, i) ==
  {hide(Begin(w), i, FALSE)}
    \cup (IF w.inst[i].handlers.escape /\ ~StaticBackdrop(w, i)
          THEN {dispatchEscape(Begin(w), IdSeq, {})} ELSE {})
    \cup (IF w.inst[i].handlers.dismiss /\ HasDismissButton[El(w, i)]
          THEN {hide(Begin(w), i, FALSE)} ELSE {})
    \cup (IF w.inst[i].backdrop.exists /\ ~w.inst[i].backdrop.static
          THEN {backdropClick(Begin(w), i, FALSE)} ELSE {})

\* C30: an accepted hide() with a gesture session or a settle animation in
\* flight clears the dragging state, cancels the pending frame without
\* running it or its completion, and resets the position offset: the sheet
\* is Hiding, only the hide notification was dispatched, no frame callback is
\* left that could move the panel, change the backdrop or dispatch slide,
\* and the pointer listeners are gone.  So a sheet that is Hiding or Hidden
\* never has a session or a frame callback, and a sheet that is Hiding has
\* no position offset.
C30_HideAbortsGesture ==
  \A i \in 1..created :
    Live(W, i) =>
      /\ StateOf(W, i) = "Shown" /\ InFlight(W, i) =>
            \A w1 \in HiddenBy(W, i) :
              /\ StateOf(w1, i) = "Hiding"
              /\ ~InFlight(w1, i)
              /\ w1.inst[i].animationFrame = NullFrame
              /\ w1.transform[El(W, i)] = 0
              /\ "dragging" \notin w1.classes[El(W, i)]
              /\ w1.inst[i].backdrop.exists => w1.inst[i].backdrop.opacity = 0
              /\ ~w1.inst[i].handlers.pointerDown
              /\ ~w1.inst[i].handlers.pointerMove
              /\ ~w1.inst[i].handlers.pointerUp
              /\ Len(w1.emitted) = 1
              /\ w1.emitted[1].name = "hide"
              /\ w1.err = ""
      /\ StateOf(W, i) \in {"Hiding", "Hidden"} => ~InFlight(W, i)
      /\ StateOf(W, i) = "Hiding" => transform[El(W, i)] = 0

\* A second session has begun while the settle animation of the first is
\* in flight, halfway to its target, and the sheet is Shown.
C30_Witness ==
  \E i \in 1..created :
    /\ StateOf(W, i) = "Shown"
    /\ inst[i].state.isDragging
    /\ inst[i].animationFrame.kind = "settle"
    /\ inst[i].frames = 1
    /\ transform[El(W, i)] # 0
    /\ StateOf(hide(Begin(W), i, FALSE), i) = "Hiding"

\* ------------------------------------------------------------------- C31
\* Instance i is displayed: Showing or Shown.
Open(w, i) == Live(w, i) /\ StateOf(w, i) \in {"Showing", "Shown"}

\* C31: while a sheet is Showing or Shown, every direct child of <body> other
\* than its panel and its own backdrop is inert, whatever the other sheet
\* did in the meantime.  The statement as the specification makes it.
C31_OutsideInertWhileOpen ==
  \A i \in 1..created :
    Open(W, i) =>
      \A n \in BodyChildren(W) \ {El(W, i), BdName[i]} : inert[n]

\* ------------------------------------------------------------------- C32
\* C32: while a sheet is Showing or Shown, its own panel and its own backdrop
\* are never inert, whatever other sheets are shown, hidden or disposed in
\* the meantime.  The statement as the specification makes it.
C32_OwnPanelNeverInert ==
  \A i \in 1..created :
    Open(W, i) =>
      /\ ~inert[El(W, i)]
      /\ inst[i].backdrop.exists => ~inert[BdName[i]]

\* ------------------------------------------------------------------- C33
\* C33: a gesture session is active only on a live instance whose isShown is
\* set, never while it is Hidden or Hiding or after dispose; and a contact
\* move or a contact end that arrives with no session active changes neither
\* the position nor anything else and dispatches nothing, for the listener
\* of one instance as for the event on the document.
C33_SessionOnlyWhileShown ==
  /\ \A i \in 1..created :
       /\ inst[i].state.isDragging =>
            /\ Live(W, i)
            /\ inst[i].state.isShown
            /\ StateOf(W, i) \in {"Showing", "Shown"}
       /\ Live(W, i) /\ ~inst[i].state.isDragging =>
            /\ Silent(W, onPointerUp(Begin(W), i))
            /\ \A y \in MoveYs, dt \in DeltaTimes :
                 Silent(W, onPointerMove(Begin(W), i, y, dt))
  /\ (\A i \in 1..created : ~inst[i].state.isDragging) =>
       /\ Silent(W, dispatchPointerUp(Begin(W), IdSeq))
       /\ \A y \in MoveYs, dt \in DeltaTimes :
            Silent(W, dispatchPointerMove(Begin(W), IdSeq, y, dt))

\* A sheet that is Shown with its pointer listeners attached and no session
\* active, after a session has ended with the panel away from its place.
C33_Witness ==
  \E i \in 1..created :
    /\ StateOf(W, i) = "Shown"
    /\ inst[i].handlers.pointerMove
    /\ inst[i].handlers.pointerUp
    /\ ~inst[i].state.isDragging
    /\ drags > 0
    /\ transform[El(W, i)] # 0

\* ------------------------------------------------------------------- C34
\* C34: whenever a sheet is Shown with no gesture session active and no
\* frame callback pending, its panel has no drag offset and its backdrop has
\* opacity 1.  The statement as the specification makes it.
C34_AtRestWhenShown ==
  \A i \in 1..created :
    /\ StateOf(W, i) = "Shown"
    /\ ~InFlight(W, i)
    => /\ transform[El(W, i)] = 0
       /\ inst[i].backdrop.exists => inst[i].backdrop.opacity = 1000

\* ------------------------------------------------------------------- C35
\* The token has neither fired nor been cancelled: its callback may still
\* run, by its fallback timer or by its transitionend listener.
PendingToken(tok) == ~tok.isExecuted /\ (tok.timeoutId \/ tok.listening)

\* The tokens of instance i that are pending.
PendingTokens(w, i) ==
  {which \in {"openTimeout", "closeTimeout"} : PendingToken(w.inst[i][which])}

\* C35: for a live instance, isTransitioning is set exactly when one
\* transition token of the instance is pending: the opening token while it
\* is Showing, the closing token while it is Hiding.  There are never two
\* pending tokens and never one while isTransitioning is clear.
C35_TransitioningIffTokenPending ==
  \A i \in 1..created :
    Live(W, i) =>
      /\ Cardinality(PendingTokens(W, i)) <= 1
      /\ inst[i].state.isTransitioning <=> PendingTokens(W, i) # {}
      /\ StateOf(W, i) = "Showing" => PendingTokens(W, i) = {"openTimeout"}
      /\ StateOf(W, i) = "Hiding" => PendingTokens(W, i) = {"closeTimeout"}

\* A sheet that is Hiding after a whole opening transition: its opening
\* token has fired, its closing token is pending.
C35_Witness ==
  \E i \in 1..created :
    /\ StateOf(W, i) = "Hiding"
    /\ inst[i].openTimeout.isExecuted
    /\ PendingTokens(W, i) = {"closeTimeout"}
    /\ lastNote[i] = "hide"

\* ------------------------------------------------------------------- C36
\* The classes show, showing and hiding of panel e are those of the
\* lifecycle state of instance i.
MarkersAgree(w, e, i) ==
  /\ "show" \in w.classes[e] <=> w.inst[i].state.isShown
  /\ "showing" \in w.classes[e] <=> StateOf(w, i) = "Showing"
  /\ "hiding" \in w.classes[e] <=> StateOf(w, i) = "Hiding"

\* C36: for every panel, the visual markers agree with the state of the
\* instance registered for it, also when that instance was created after a
\* previous one was disposed.  The statement as the specification makes it.
C36_MarkersAgreeWithState ==
  \A e \in panels :
    INSTANCES[e] # NoInst => MarkersAgree(W, e, INSTANCES[e])

\* ------------------------------------------------------------------- C37
\* The listeners instance i has on the document, on the dismiss controls and
\* on the drag handle.
OwnListeners(w, i) ==
  {k \in DOMAIN NoListeners \ {"backdropClick"} : w.inst[i].listeners[k] > 0}

\* Every listener of instance i is registered at most once, and exactly
\* when the instance holds its closure.
EachOnce(w, i) ==
  LET l == w.inst[i].listeners
      h == w.inst[i].handlers
      One(b) == IF b THEN 1 ELSE 0
  IN /\ l.escape = One(h.escape)
     /\ l.dismiss = One(h.dismiss /\ HasDismissButton[El(w, i)])
     /\ l.pointerDown = One(h.pointerDown)
     /\ l.pointerMove = One(h.pointerMove)
     /\ l.pointerUp = One(h.pointerUp)
     /\ l.pointerCancel = One(h.pointerUp)
     /\ l.backdropClick = One(w.inst[i].backdrop.exists /\ ~w.inst[i].backdrop.static)

\* C37 as the specification states it: every listener of an instance, the
\* click listener of its backdrop included, is attached only while the
\* instance is Showing or Shown.
C37_AttachedOnlyWhileOpen ==
  \A i \in 1..created :
    inst[i].listeners # NoListeners => Open(W, i)

\* C37, amended: the Escape, pointer, dismiss and drag-handle listeners of an
\* instance are attached only while it is Showing or Shown; the click
\* listener of its backdrop lives as long as the backdrop, so also while the
\* instance is Hiding; each is attached at most once; an instance that is
\* Hidden or disposed has none of them.
C37_ListenersFollowLifecycle ==
  \A i \in 1..created :
    /\ Live(W, i) => EachOnce(W, i)
    /\ OwnListeners(W, i) # {} => Open(W, i)
    /\ inst[i].listeners.backdropClick > 0 =>
         Live(W, i) /\ StateOf(W, i) \in {"Showing", "Shown", "Hiding"}
    /\ StateOf(W, i) \in {"Hidden", "Disposed"} => inst[i].listeners = NoListeners

\* A sheet that is Hiding after it was Shown: its own listeners are gone and
\* the click listener of its backdrop is still there.
C37_Witness ==
  \E i \in 1..created :
    /\ StateOf(W, i) = "Hiding"
    /\ lastNote[i] = "hide"
    /\ OwnListeners(W, i) = {}
    /\ inst[i].listeners.backdropClick = 1

\* ------------------------------------------------------------------- C38
\* The render frame of instance i that comes elapsed ms after the release.
frameAfter(w, i, elapsed) ==
  frameCallback(Begin(w), i, progressAt(w, i, elapsed), FALSE)

\* The frame ends the settle animation of instance i: no frame is requested
\* any more, the panel is at the target offset, or reset by the hide() the
\* completion of a close decision called, once.
SettleEnded(w0, w1, i) ==
  LET f == w0.inst[i].animationFrame
  IN /\ w1.inst[i].frames = 0
     /\ w1.inst[i].animationFrame = NullFrame
     /\ f.close /\ hideAsks(w0, i) =>
          /\ Len(w1.emitted) = 1
          /\ w1.emitted[1].name = "hide"
          /\ StateOf(w1, i) = "Hiding"
     /\ ~(f.close /\ hideAsks(w0, i)) =>
          /\ w1.emitted = <<>>
          /\ w1.transform[El(w0, i)] = f.targetY

\* C38: every settle animation terminates, for every animationDuration the
\* constructor accepts: a render frame that comes when the duration has
\* elapsed ends it.  The statement as the specification makes it.
C38_SettleTerminates ==
  \A i \in 1..created :
    /\ Live(W, i)
    /\ inst[i].frames > 0
    /\ inst[i].animationFrame.kind = "settle"
    => \A elapsed \in FrameElapsed :
         elapsed * 1000 >= Cfg(W, i).animationDuration.num =>
           SettleEnded(W, frameAfter(W, i, elapsed), i)

\* ------------------------------------------------------------------- C39
\* The world in which the cancel function of the token was called.
cancelled(w, i, which) == [w EXCEPT !.inst[i][which] = cancelToken(@)]

\* The callback of the token ("openTimeout": #finalizeShow, "closeTimeout":
\* #finalizeHide) ran once between w0 and w1: one completion notification,
\* the transition over, the token used up with its listener and timer gone.
RanOnce(w0, w1, i, which) ==
  LET done == IF which = "openTimeout" THEN "shown" ELSE "hidden"
  IN /\ w1.err = "" /\ w1.log = ""
     /\ Cardinality({k \in DOMAIN w1.emitted :
                       w1.emitted[k].name = done /\ w1.emitted[k].inst = i}) = 1
     /\ w0.inst[i].state.isTransitioning /\ ~w1.inst[i].state.isTransitioning
     /\ w1.inst[i][which].isExecuted
     /\ ~w1.inst[i][which].listening /\ ~w1.inst[i][which].timeoutId

\* No signal runs the callback of the token in world w: neither a
\* transitionend on the element or on a descendant, nor the timer.
NeverRuns(w, i, which) ==
  /\ Silent(w, executeOnce(Begin(w), i, which))
  /\ \A onSelf \in BOOLEAN : Silent(w, handleTransitionEnd(Begin(w), i, which, onSelf))
  /\ cancelToken(w.inst[i][which]) = w.inst[i][which]

\* C39: the callback of executeAfterTransition runs at most once under every
\* ordering of transitionend signals, the fallback timer and cancellation.
\* For a pending token the first transitionend whose target is the element
\* itself, or the timer, runs it exactly once, and nothing runs it again; a
\* transitionend on a descendant does not run it and leaves the timer to run
\* it; after the cancel function nothing runs it.  A token that fired or was
\* cancelled holds neither listener nor timer.
C39_CallbackAtMostOnce ==
  \A i \in 1..created, which \in {"openTimeout", "closeTimeout"} :
    LET tok == inst[i][which]
        onChild == handleTransitionEnd(Begin(W), i, which, FALSE)
        onElement == handleTransitionEnd(Begin(W), i, which, TRUE)
        onTimer == executeOnce(Begin(W), i, which)
    IN /\ tok.isExecuted => ~tok.listening /\ ~tok.timeoutId /\ NeverRuns(W, i, which)
       /\ PendingToken(tok) =>
            /\ tok.listening /\ tok.timeoutId
            /\ Silent(W, onChild)
            /\ RanOnce(W, executeOnce(Begin(onChild), i, which), i, which)
            /\ RanOnce(W, onElement, i, which) /\ NeverRuns(onElement, i, which)
            /\ RanOnce(W, onTimer, i, which) /\ NeverRuns(onTimer, i, which)
            /\ NeverRuns(cancelled(W, i, which), i, which)

\* One token was cancelled before it fired (its sheet was disposed while
\* Showing), another one is pending on a live sheet.
C39_Witness ==
  \E i, j \in 1..created :
    /\ ~Live(W, j)
    /\ inst[j].openTimeout.isExecuted
    /\ lastNote[j] = "show"
    /\ Live(W, i)
    /\ PendingToken(inst[i].openTimeout)

====
